---- MODULE Spec2Model ----
(***************************************************************************)
(* A model of the liquidation monitor: the Binance adapter                 *)
(* (liquidation_ba.py), the OKX adapter (liquidation_okx.py) and the hub   *)
(* (liquidation_hub.py: EventStore, CsvTailer, pruner, WsBroker and the    *)
(* HTTP routes /data, /latest_liquidations, /history, /symbol_stats and    *)
(* /stream).                                                               *)
(*                                                                         *)
(* Conventions of the model                                                *)
(*  - A text is a tuple of one-character strings, so that the suffix       *)
(*    regex and upper-casing are computed and not assumed.                 *)
(*  - Numbers are fixed point.  Binance quantities are in thousandths of   *)
(*    a coin, OKX ratios in tenths of a coin per contract, prices are      *)
(*    whole USDT, journal amounts are in hundredths of a USDT (the         *)
(*    Binance adapter writes two decimals).  Arithmetic is exact: the      *)
(*    binary rounding of Python floats is not modelled, except that a      *)
(*    formatting tie may fall either way.                                  *)
(*  - A timestamp is a number of seconds; the "%Y-%m-%d %H:%M:%S" text of  *)
(*    a journal row is a numeric field holding that number.                *)
(*  - An Optional value is a tuple: None is <<>> and a value x is <<x>>.   *)
(*    A dict is a list of <<key, value>> in insertion order, and a         *)
(*    quotient of two sums is the pair <<numerator, denominator>>.         *)
(*  - The Chinese tokens of the journal are written in ASCII:              *)
(*    "long-liquidated" and "short-liquidated" for the two directions,     *)
(*    "BA", "OKX" and "BinanceCN" for the exchange tags, and HeaderRow     *)
(*    for the header line.                                                 *)
(***************************************************************************)
EXTENDS Integers, Sequences, FiniteSets, TLC

VARIABLES
    \* ---- Binance adapter (liquidation_ba.py)
    ba_journal,        \* rows of liquidation_ba.csv after the header
    ba_counter,        \* event_counter
    ba_last,           \* history: the last event handled and what it wrote
    ba_conn,           \* where listen is: "connecting", "live" or "down"
    ba_reconnect,      \* reconnect_count
    \* ---- OKX adapter (liquidation_okx.py)
    okx_journal,       \* rows of liquidation_okx.csv after the header
    conversion_cache,  \* instId -> ratio (tenths of a coin per contract)
    cache_file,        \* the contents of the cache file
    okx_counter,       \* event_counter
    api_permits,       \* free permits of api_semaphore
    okx_pc,            \* where the receive loop is
    okx_queue,         \* details of the current push still to handle
    okx_cur,           \* the detail being converted
    okx_retry,         \* the retry index of the conversion in progress
    okx_conn,          \* where listen is: "connecting", "live" or "down"
    okx_reconnect,     \* reconnect_count
    okx_last,          \* history: the last detail handled and what it did
    okx_rest_ok,       \* history: successful REST resolutions per instId
    \* ---- hub (liquidation_hub.py)
    journal,           \* exchange -> the journal file the hub reads
    events,            \* STORE.events
    tailer,            \* exchange -> the fields and the position of its CsvTailer
    now,               \* datetime.utcnow() + 8h, in seconds
    hub_pc,            \* "off" before initial_bootstrap, then "running"
    boot_cutoff,       \* the cutoff initial_bootstrap computed
    \* ---- hub, WebSocket push (WsBroker)
    symbol_to_clients, \* symbol -> the websockets subscribed, in a list
    ws_state,          \* websocket -> where its handler is
    ws_symbols,        \* websocket -> the symbols its handler registered
    appender,          \* thread -> its position in STORE.append and notify
    ws_appends,        \* history: the number of STORE.append calls so far
    ws_sent,           \* history: websocket -> the appends handed to ws.send
    ws_reply,          \* websocket -> what the handler itself sent to it
    \* ---- hub, the read side (EventStore queries behind the HTTP routes)
    store_last,        \* history: the event of the latest STORE.append call
    api_response,      \* the response of the latest request, with its inputs
    stats,             \* the /symbol_stats request in progress
    sse,               \* the /stream generator, with what it has emitted
    \* ---- hub, the tailers' history and the journals' environment
    tailed,            \* history: exchange -> the <<inode, line>> its tailer
                       \* handed to STORE.append, in order
    tail_env,          \* the polls aborted and the journals rotated so far
    \* ---- hub, the two locks
    locks              \* who is inside a "with self.lock" block of STORE and
                       \* of the broker, and where the HTTP reader is

baVars == <<ba_journal, ba_counter, ba_last, ba_conn, ba_reconnect>>
okxVars == <<okx_journal, conversion_cache, cache_file, okx_counter, api_permits,
             okx_pc, okx_queue, okx_cur, okx_retry, okx_conn, okx_reconnect,
             okx_last, okx_rest_ok>>
hubVars == <<journal, events, tailer, now, hub_pc, boot_cutoff>>
wsVars == <<symbol_to_clients, ws_state, ws_symbols, appender, ws_appends,
           ws_sent, ws_reply>>
apiVars == <<store_last, api_response, stats, sse>>
tailVars == <<tailed, tail_env>>
lockVars == <<locks>>
vars == <<baVars, okxVars, hubVars, wsVars, apiVars, tailVars, lockVars>>

\* what an action of one process leaves alone: the other processes' state
notBaVars == <<okxVars, hubVars, wsVars, apiVars, tailVars, lockVars>>
notOkxVars == <<baVars, hubVars, wsVars, apiVars, tailVars, lockVars>>
notHubVars == <<baVars, okxVars, wsVars, apiVars, tailVars, lockVars>>
besideWsVars == <<baVars, okxVars, journal, tailer, now, hub_pc, boot_cutoff,
                  apiVars, tailVars>>
notWsVars == <<besideWsVars, lockVars>>
notApiVars == <<baVars, okxVars, wsVars, journal, tailer, now, hub_pc,
                boot_cutoff, tailVars, lockVars>>

(***************************************************************************)
(* Texts, numbers and journal rows                                         *)
(***************************************************************************)

LowerToUpper == [b |-> "B", t |-> "T", c |-> "C", u |-> "U", s |-> "S",
                 d |-> "D", e |-> "E", h |-> "H"]

UpperChar(c) == IF c \in DOMAIN LowerToUpper THEN LowerToUpper[c] ELSE c

Upper(s) == [i \in 1..Len(s) |-> UpperChar(s[i])]

USDT == <<"U", "S", "D", "T">>
USDC == <<"U", "S", "D", "C">>

\* re.sub(r"(USDT|USDC)$", "", symbol, flags=re.I)
StripQuoteSuffix(symbol) ==
    IF /\ Len(symbol) >= 4
       /\ Upper(SubSeq(symbol, Len(symbol) - 3, Len(symbol))) \in {USDT, USDC}
    THEN SubSeq(symbol, 1, Len(symbol) - 4)
    ELSE symbol

\* A numeric or textual field of a CSV row.
Num(v) == [k |-> "num", v |-> v, s |-> ""]
Txt(s) == [k |-> "txt", v |-> 0, s |-> s]

HeaderRow == <<Txt("time"), <<"pair">>, "exchange", Txt("price"), "direction",
               Txt("amount")>>

LongLiq == "long-liquidated"
ShortLiq == "short-liquidated"

\* Python's round(): to the nearest integer, a tie to the even one.
\* n is a number of tenths.
RoundHalfEven10(n) ==
    LET q == n \div 10
        r == n % 10
    IN  IF r < 5 THEN q
        ELSE IF r > 5 THEN q + 1
        ELSE IF q % 2 = 0 THEN q ELSE q + 1

\* f"{amount:.2f}" of a number of thousandths: the hundredths it may print.
\* On a tie the binary value of the float decides, so both are possible.
Format2f(n) ==
    LET q == n \div 10
        r == n % 10
    IN  IF r < 5 THEN {q}
        ELSE IF r > 5 THEN {q + 1}
        ELSE {q, q + 1}

(***************************************************************************)
(* The Binance adapter                                                     *)
(***************************************************************************)

threshold == 10

MaxBaEvents == 2

\* the largest value of a reconnect counter
MaxReconnect == 2

BTCUSDT == <<"B", "T", "C", "U", "S", "D", "T">>
ETHUSDC == <<"E", "T", "H", "U", "S", "D", "C">>
BTCUSD == <<"B", "T", "C", "U", "S", "D">>

\* <<quantity in thousandths, price in USDT>>: 0.003, 10.000, 10.005, 10.008
\* and 12.003 USDT
BaFills == {<<1, 3>>, <<2000, 5>>, <<667, 15>>, <<3336, 3>>, <<4001, 3>>}

\* forceOrder events: E in ms, o.s, o.S, o.q and o.ap
BaEvents ==
    { [E |-> E, s |-> s, S |-> S, q |-> f[1], ap |-> f[2]] :
        E \in {1999, 61000}, s \in {BTCUSDT, ETHUSDC, BTCUSD},
        S \in {"BUY", "SELL"}, f \in BaFills }

\* datetime.utcfromtimestamp(E / 1000) + 8h, printed to the second
BaEventTime(E) == (E \div 1000) + 8 * 3600

BaDirectionSwapped(side) == IF side = "SELL" THEN ShortLiq ELSE LongLiq

BaDirection(side) == IF side = "BUY" THEN ShortLiq ELSE LongLiq

\* qty * price, in thousandths of a USDT
BaAmount(ev) == ev.q * ev.ap

BaRow(ev, amount100) ==
    <<Num(BaEventTime(ev.E)), StripQuoteSuffix(ev.s), "BA", Num(ev.ap),
      BaDirection(ev.S), Num(amount100)>>

\* a mutant: the counter is kept when the connection is made
CounterKept(count) == count

\* "reconnect_count = 0", after websockets.connect has succeeded
CounterReset(count) == 0

handle_event(ev) ==
    /\ ba_conn = "live"
    /\ ba_counter.total_received < MaxBaEvents
    /\ IF BaAmount(ev) >= threshold * 1000
       THEN /\ \E a \in Format2f(BaAmount(ev)) :
                 ba_journal' = Append(ba_journal, BaRow(ev, a))
            /\ ba_counter' = [ba_counter EXCEPT !.total_received = @ + 1,
                                                !.written = @ + 1]
       ELSE /\ ba_journal' = ba_journal
            /\ ba_counter' = [ba_counter EXCEPT !.total_received = @ + 1,
                                                !.filtered = @ + 1]
    /\ ba_last' = [ev |-> ev, wrote |-> Len(ba_journal') > Len(ba_journal)]
    /\ UNCHANGED <<ba_conn, ba_reconnect>>
    /\ UNCHANGED notBaVars

\* listen: websockets.connect succeeds
BaConnect ==
    /\ ba_conn = "connecting"
    /\ ba_conn' = "live"
    /\ ba_reconnect' = CounterReset(ba_reconnect)
    /\ UNCHANGED <<ba_journal, ba_counter, ba_last>>
    /\ UNCHANGED notBaVars

\* listen: websockets.connect raises, the outer except counts it
BaConnectFails ==
    /\ ba_conn = "connecting"
    /\ ba_reconnect < MaxReconnect
    /\ ba_conn' = "down"
    /\ ba_reconnect' = ba_reconnect + 1
    /\ UNCHANGED <<ba_journal, ba_counter, ba_last>>
    /\ UNCHANGED notBaVars

\* the ways the receive loop is left
BaRecvEnds == {"timeout", "closed"}

\* listen: recv() times out (180 s) or raises ConnectionClosed; the inner
\* loop is left with break, without an error
BaRecvEnd(cause) ==
    /\ ba_conn = "live"
    /\ ba_conn' = "down"
    /\ UNCHANGED <<ba_journal, ba_counter, ba_last, ba_reconnect>>
    /\ UNCHANGED notBaVars

\* listen: "await asyncio.sleep(5)" is over, the loop turns to
\* websockets.connect
BaSleepDone ==
    /\ ba_conn = "down"
    /\ ba_conn' = "connecting"
    /\ UNCHANGED <<ba_journal, ba_counter, ba_last, ba_reconnect>>
    /\ UNCHANGED notBaVars

BaInit ==
    /\ ba_journal = <<>>
    /\ ba_counter = [total_received |-> 0, written |-> 0, filtered |-> 0]
    /\ ba_last = [ev |-> CHOOSE ev \in BaEvents : TRUE, wrote |-> FALSE]
    /\ ba_conn = "connecting"
    /\ ba_reconnect = 0

\* listen, without the messages
BaListen ==
    \/ BaConnect
    \/ BaConnectFails
    \/ \E cause \in BaRecvEnds : BaRecvEnd(cause)
    \/ BaSleepDone

BaNext ==
    \/ \E ev \in BaEvents : handle_event(ev)
    \/ BaListen

(***************************************************************************)
(* The OKX adapter                                                         *)
(***************************************************************************)

okx_threshold == 10

SemaphorePermits == 2

MaxRetries == 3

MaxOkxReceived == 2

MaxDetails == 2

\* instId as instId.split('-')
BTC_SWAP == <<<<"B", "T", "C">>, USDT, <<"S", "W", "A", "P">>>>
ETH_SWAP == <<<<"E", "T", "H">>, USDT, <<"S", "W", "A", "P">>>>

InstIds == {BTC_SWAP, ETH_SWAP}

\* What the exchange's convert endpoint answers: the contract's face value,
\* in tenths of a coin per contract.
FaceValue(instId) == IF instId = BTC_SWAP THEN 1 ELSE 2

Detail(ts, side, posSide, bkPx, sz) ==
    [ts |-> ts, side |-> side, posSide |-> posSide, bkPx |-> bkPx, sz |-> sz]

\* details of a liquidation-orders push: ts in ms, bkPx a text field of the
\* message (a number, an empty text or a text that is no number), sz in
\* contracts
OkxDetails ==
    { Detail(0, "sell", "long", Num(100), 1),
      Detail(2500, "buy", "short", Num(100), 1),
      Detail(2500, "sell", "long", Num(19), 5),
      Detail(2500, "buy", "short", Num(19), 1),
      Detail(0, "buy", "long", Num(100), 5),
      Detail(2500, "sell", "short", Num(100), 1),
      Detail(0, "sell", "long", Txt(""), 1),
      Detail(0, "buy", "short", Txt("n/a"), 1) }

\* one push: the details of one instId, in order
OkxPushes ==
    { [i \in 1..Len(ds) |-> [instId |-> inst, detail |-> ds[i]]] :
        inst \in InstIds,
        ds \in UNION { [1..n -> OkxDetails] : n \in 1..MaxDetails } }

\* the outcomes of one GET of the convert endpoint that are not a success
RestFailures == {"429", "timeout", "status", "code"}

OkxEventTime(ts) == (ts \div 1000) + 8 * 3600

\* "if instId in conversion_cache"
CacheMissAlways(instId) == FALSE

CacheHit(instId) == instId \in DOMAIN conversion_cache

\* conversion_cache[instId] = conversion_ratio
CachePutOnly(cache, instId, ratio) == [i \in {instId} |-> ratio]

CachePut(cache, instId, ratio) ==
    [i \in DOMAIN cache \cup {instId} |-> IF i = instId THEN ratio ELSE cache[i]]

\* float(data['data'][0]['sz']) / float(sz), in tenths
ConversionRatio(respSz, sz) == respSz \div sz

\* the direction of a (side, posSide) combination, "" for none
OkxDirectionBySide(side, posSide) == IF side = "buy" THEN ShortLiq ELSE LongLiq

OkxDirection(side, posSide) ==
    IF side = "sell" /\ posSide = "long" THEN LongLiq
    ELSE IF side = "buy" /\ posSide = "short" THEN ShortLiq
    ELSE ""

\* round(float(converted_sz) * float(bk_px)); converted_sz in tenths
OkxAmount(converted, bk_px) == RoundHalfEven10(converted * bk_px)

OkxRow(instId, detail, direction, amount) ==
    <<Num(OkxEventTime(detail.ts)), instId[1], "OKX", Num(detail.bkPx.v),
      direction, Num(amount * 100)>>

\* a mutant: the next message is received after one detail
OkxAfterDetailRecv(queue) == "recv"

\* handle_message: the next detail of the push, or back to recv()
OkxAfterDetail(queue) == IF queue = <<>> THEN "recv" ELSE "details"

\* a mutant: the loop ends after two attempts
LastAttemptSecond(retry) == retry + 1 >= 2

\* "for retry in range(3)": the attempt of index retry is the last one
LastAttempt(retry) == retry + 1 >= MaxRetries

\* a mutant: the permit is kept
SemaphoreKeep(permits) == permits

\* the end of "async with api_semaphore"
SemaphoreRelease(permits) == permits + 1

\* handle_detail from the return of convert_contract_coin on: the
\* direction check, the threshold and the journal row.
\* how: "hit" or "rest", calls: the GETs this detail made.
OkxFinish(instId, detail, converted, how, calls, counter) ==
    LET amount == OkxAmount(converted, detail.bkPx.v)
        direction == OkxDirection(detail.side, detail.posSide)
    IN  /\ IF direction = ""
           THEN /\ okx_journal' = okx_journal
                /\ okx_counter' = counter
           ELSE IF amount >= okx_threshold
           THEN /\ okx_journal' = Append(okx_journal,
                                         OkxRow(instId, detail, direction, amount))
                /\ okx_counter' = [counter EXCEPT !.written = @ + 1]
           ELSE /\ okx_journal' = okx_journal
                /\ okx_counter' = [counter EXCEPT !.filtered = @ + 1]
        /\ okx_last' = [instId |-> instId, detail |-> detail, how |-> how,
                        calls |-> calls, converted |-> converted,
                        wrote |-> Len(okx_journal') > Len(okx_journal)]

\* listen: websocket.recv() returns a push, handle_message starts on it
OkxRecv(push) ==
    /\ okx_conn = "live"
    /\ okx_pc = "recv"
    /\ okx_counter.total_received + Len(push) <= MaxOkxReceived
    /\ okx_queue' = push
    /\ okx_pc' = "details"
    /\ UNCHANGED <<okx_journal, conversion_cache, cache_file, okx_counter,
                   api_permits, okx_cur, okx_retry, okx_conn, okx_reconnect,
                   okx_last, okx_rest_ok>>
    /\ UNCHANGED notOkxVars

\* handle_detail with a missing or invalid bkPx: return before anything
OkxDetailNoPrice ==
    /\ okx_pc = "details"
    /\ okx_queue # <<>>
    /\ Head(okx_queue).detail.bkPx.k # "num"
    /\ okx_queue' = Tail(okx_queue)
    /\ okx_pc' = OkxAfterDetail(Tail(okx_queue))
    /\ okx_last' = [instId |-> Head(okx_queue).instId,
                    detail |-> Head(okx_queue).detail, how |-> "noprice",
                    calls |-> 0, converted |-> 0, wrote |-> FALSE]
    /\ UNCHANGED <<okx_journal, conversion_cache, cache_file, okx_counter,
                   api_permits, okx_cur, okx_retry, okx_conn, okx_reconnect,
                   okx_rest_ok>>
    /\ UNCHANGED notOkxVars

\* handle_detail, convert_contract_coin answered from the cache
OkxDetailCacheHit ==
    /\ okx_pc = "details"
    /\ okx_queue # <<>>
    /\ LET instId == Head(okx_queue).instId
           detail == Head(okx_queue).detail
       IN  /\ detail.bkPx.k = "num"
           /\ CacheHit(instId)
           /\ OkxFinish(instId, detail, detail.sz * conversion_cache[instId],
                        "hit", 0,
                        [okx_counter EXCEPT !.total_received = @ + 1,
                                            !.cache_hits = @ + 1])
    /\ okx_queue' = Tail(okx_queue)
    /\ okx_pc' = OkxAfterDetail(Tail(okx_queue))
    /\ UNCHANGED <<conversion_cache, cache_file, api_permits, okx_cur,
                   okx_retry, okx_conn, okx_reconnect, okx_rest_ok>>
    /\ UNCHANGED notOkxVars

\* handle_detail, convert_contract_coin on a cache miss: take a permit
OkxDetailCacheMiss ==
    /\ okx_pc = "details"
    /\ okx_queue # <<>>
    /\ Head(okx_queue).detail.bkPx.k = "num"
    /\ ~CacheHit(Head(okx_queue).instId)
    /\ api_permits > 0
    /\ api_permits' = api_permits - 1
    /\ okx_counter' = [okx_counter EXCEPT !.total_received = @ + 1,
                                          !.api_calls = @ + 1]
    /\ okx_cur' = <<Head(okx_queue)>>
    /\ okx_queue' = Tail(okx_queue)
    /\ okx_retry' = 0
    /\ okx_pc' = "rest"
    /\ UNCHANGED <<okx_journal, conversion_cache, cache_file, okx_conn,
                   okx_reconnect, okx_last, okx_rest_ok>>
    /\ UNCHANGED notOkxVars

\* one GET answered 200 with code 0: cache, persist, return
OkxRestOk ==
    /\ okx_pc = "rest"
    /\ LET instId == okx_cur[1].instId
           detail == okx_cur[1].detail
           ratio == ConversionRatio(detail.sz * FaceValue(instId), detail.sz)
           cache == CachePut(conversion_cache, instId, ratio)
       IN  /\ conversion_cache' = cache
           /\ cache_file' = cache
           /\ okx_rest_ok' = [okx_rest_ok EXCEPT ![instId] = @ + 1]
           /\ OkxFinish(instId, detail, detail.sz * ratio, "rest",
                        okx_retry + 1, okx_counter)
    /\ api_permits' = SemaphoreRelease(api_permits)
    /\ okx_cur' = <<>>
    /\ okx_retry' = 0
    /\ okx_pc' = OkxAfterDetail(okx_queue)
    /\ UNCHANGED <<okx_queue, okx_conn, okx_reconnect>>
    /\ UNCHANGED notOkxVars

\* one GET that fails, another attempt is left
OkxRestRetry(failure) ==
    /\ okx_pc = "rest"
    /\ ~LastAttempt(okx_retry)
    /\ okx_retry' = okx_retry + 1
    /\ UNCHANGED <<okx_journal, conversion_cache, cache_file, okx_counter,
                   api_permits, okx_pc, okx_queue, okx_cur, okx_conn,
                   okx_reconnect, okx_last, okx_rest_ok>>
    /\ UNCHANGED notOkxVars

\* the last GET fails: give up, the detail is dropped
OkxRestGiveUp(failure) ==
    /\ okx_pc = "rest"
    /\ LastAttempt(okx_retry)
    /\ okx_counter' = [okx_counter EXCEPT !.conversion_failed = @ + 1]
    /\ okx_last' = [instId |-> okx_cur[1].instId, detail |-> okx_cur[1].detail,
                    how |-> "failed", calls |-> okx_retry + 1, converted |-> 0,
                    wrote |-> FALSE]
    /\ api_permits' = SemaphoreRelease(api_permits)
    /\ okx_cur' = <<>>
    /\ okx_retry' = 0
    /\ okx_pc' = OkxAfterDetail(okx_queue)
    /\ UNCHANGED <<okx_journal, conversion_cache, cache_file, okx_queue,
                   okx_conn, okx_reconnect, okx_rest_ok>>
    /\ UNCHANGED notOkxVars

\* listen: recv() times out (60 s) and the loop is left without an error
OkxRecvTimeout ==
    /\ okx_conn = "live"
    /\ okx_pc = "recv"
    /\ okx_conn' = "down"
    /\ UNCHANGED <<okx_journal, conversion_cache, cache_file, okx_counter,
                   api_permits, okx_pc, okx_queue, okx_cur, okx_retry,
                   okx_reconnect, okx_last, okx_rest_ok>>
    /\ UNCHANGED notOkxVars

\* listen: recv() raises ConnectionClosed (or another error)
OkxConnectionClosed ==
    /\ okx_conn = "live"
    /\ okx_pc = "recv"
    /\ okx_reconnect < MaxReconnect
    /\ okx_conn' = "down"
    /\ okx_reconnect' = okx_reconnect + 1
    /\ UNCHANGED <<okx_journal, conversion_cache, cache_file, okx_counter,
                   api_permits, okx_pc, okx_queue, okx_cur, okx_retry,
                   okx_last, okx_rest_ok>>
    /\ UNCHANGED notOkxVars

\* listen: websockets.connect succeeds
OkxConnect ==
    /\ okx_pc # "start"
    /\ okx_conn = "connecting"
    /\ okx_conn' = "live"
    /\ okx_reconnect' = CounterReset(okx_reconnect)
    /\ UNCHANGED <<okx_journal, conversion_cache, cache_file, okx_counter,
                   api_permits, okx_pc, okx_queue, okx_cur, okx_retry,
                   okx_last, okx_rest_ok>>
    /\ UNCHANGED notOkxVars

\* listen: websockets.connect fails
OkxConnectFails ==
    /\ okx_pc # "start"
    /\ okx_conn = "connecting"
    /\ okx_reconnect < MaxReconnect
    /\ okx_conn' = "down"
    /\ okx_reconnect' = okx_reconnect + 1
    /\ UNCHANGED <<okx_journal, conversion_cache, cache_file, okx_counter,
                   api_permits, okx_pc, okx_queue, okx_cur, okx_retry,
                   okx_last, okx_rest_ok>>
    /\ UNCHANGED notOkxVars

\* listen: "await asyncio.sleep(5)" is over, the loop turns to
\* websockets.connect
OkxSleepDone ==
    /\ okx_conn = "down"
    /\ okx_conn' = "connecting"
    /\ UNCHANGED <<okx_journal, conversion_cache, cache_file, okx_counter,
                   api_permits, okx_pc, okx_queue, okx_cur, okx_retry,
                   okx_reconnect, okx_last, okx_rest_ok>>
    /\ UNCHANGED notOkxVars

\* the cache file at start-up: absent, or holding an earlier run's entries
InitialCacheFiles ==
    { [i \in dom |-> FaceValue(i)] : dom \in {{}, {ETH_SWAP}} }

\* module start-up: conversion_cache = json.load(cache_file) if it exists
OkxLoadCache(file) ==
    /\ okx_pc = "start"
    /\ cache_file' = file
    /\ conversion_cache' = file
    /\ okx_pc' = "recv"
    /\ UNCHANGED <<okx_journal, okx_counter, api_permits, okx_queue, okx_cur,
                   okx_retry, okx_conn, okx_reconnect, okx_last, okx_rest_ok>>
    /\ UNCHANGED notOkxVars

OkxInit ==
    /\ okx_journal = <<>>
    /\ cache_file = <<>>
    /\ conversion_cache = <<>>
    /\ okx_counter = [total_received |-> 0, written |-> 0, filtered |-> 0,
                      conversion_failed |-> 0, api_calls |-> 0,
                      cache_hits |-> 0]
    /\ api_permits = SemaphorePermits
    /\ okx_pc = "start"
    /\ okx_queue = <<>>
    /\ okx_cur = <<>>
    /\ okx_retry = 0
    /\ okx_conn = "connecting"
    /\ okx_reconnect = 0
    /\ okx_last = [instId |-> BTC_SWAP,
                   detail |-> Detail(0, "sell", "long", Txt(""), 1),
                   how |-> "none", calls |-> 0, converted |-> 0,
                   wrote |-> FALSE]
    /\ okx_rest_ok = [i \in InstIds |-> 0]

\* listen, without the messages
OkxListen ==
    \/ OkxRecvTimeout
    \/ OkxConnectionClosed
    \/ OkxConnect
    \/ OkxConnectFails
    \/ OkxSleepDone

OkxNext ==
    \/ \E file \in InitialCacheFiles : OkxLoadCache(file)
    \/ \E push \in OkxPushes : OkxRecv(push)
    \/ OkxDetailNoPrice
    \/ OkxDetailCacheHit
    \/ OkxDetailCacheMiss
    \/ OkxRestOk
    \/ \E failure \in RestFailures : OkxRestRetry(failure)
    \/ \E failure \in RestFailures : OkxRestGiveUp(failure)
    \/ OkxListen

(***************************************************************************)
(* The hub: journals, EventStore, CsvTailer, pruner                        *)
(***************************************************************************)

RETENTION_HOURS_DEFAULT == 48

\* STORE.retention, in seconds
Retention == RETENTION_HOURS_DEFAULT * 3600

\* the clock of the model moves in steps of the retention
TimeStep == Retention

MaxTick == 2

MaxJournalRows == 2

Exchanges == {"Binance", "OKX"}

\* the tag each adapter writes in the third column
JournalTag(ex) == IF ex = "Binance" THEN "BA" ELSE "OKX"

BTC == <<"B", "T", "C">>
ETH == <<"E", "T", "H">>
btcusdt == <<"b", "t", "c", "u", "s", "d", "t">>

\* rows as the adapters write them: amount in hundredths of a USDT
AdapterRows(ex, ts) ==
    { <<Num(ts), BTC, JournalTag(ex), Num(100), LongLiq, Num(5000)>>,
      <<Num(ts), ETH, JournalTag(ex), Num(100), ShortLiq, Num(5000)>> }

\* rows no adapter of this version writes, which a journal may still hold:
\* an amount of 5 USDT; a lower-case pair with price 0 and an unknown
\* direction; a price that is no number; a row of five fields
ForeignRows(ex, ts) ==
    { <<Num(ts), BTC, JournalTag(ex), Num(100), LongLiq, Num(500)>>,
      <<Num(ts), btcusdt, JournalTag(ex), Num(0), "unknown", Num(5000)>>,
      <<Num(ts), BTC, JournalTag(ex), Txt("n/a"), LongLiq, Num(5000)>>,
      <<Num(ts), BTC, JournalTag(ex), Num(100), LongLiq>> }

\* rows that _read_new_lines or _ingest_row reject: five fields; a time, a
\* price, an amount that is no number
MalformedRows(ex, ts) ==
    { <<Num(ts), BTC, JournalTag(ex), Num(100), LongLiq>>,
      <<Txt("soon"), BTC, JournalTag(ex), Num(100), LongLiq, Num(5000)>>,
      <<Num(ts), BTC, JournalTag(ex), Txt("n/a"), LongLiq, Num(5000)>>,
      <<Num(ts), BTC, JournalTag(ex), Num(100), LongLiq, Txt("many")>> }

\* a mutant: every event older than the limit is removed
EvictAllOlderThan(evs, limit) ==
    LET Young(e) == e.timestamp >= limit IN SelectSeq(evs, Young)

\* EventStore._evict_older_than
RECURSIVE EvictOlderThan(_, _)
EvictOlderThan(evs, limit) ==
    IF evs # <<>> /\ Head(evs).timestamp < limit
    THEN EvictOlderThan(Tail(evs), limit)
    ELSE evs

\* EventStore.append, the part under the lock
StoreAppend(evs, e) ==
    EvictOlderThan(Append(evs, e), e.timestamp - Retention)

\* a mutant: only the price has to be a number
RowParsesPrice(row) == row[4].k = "num"

\* datetime.strptime(row[0]), float(row[3]), float(row[5]) all succeed
RowParses(row) ==
    /\ row[1].k = "num"
    /\ row[4].k = "num"
    /\ row[6].k = "num"

\* the LiquidationEvent of a row that parses
RowEvent(row) ==
    [timestamp |-> row[1].v,
     symbol |-> StripQuoteSuffix(row[2]),
     exchange |-> IF row[3] \in {"BinanceCN", "BA"} THEN "Binance" ELSE "OKX",
     price |-> row[4].v,
     direction |-> row[5],
     amount |-> row[6].v]

\* _initial_load_from_csv: the events of the rows of six fields that parse,
\* a header in the first line skipped
InitialLoadFromCsv(lines) ==
    LET body == IF lines # <<>> /\ lines[1] = HeaderRow THEN Tail(lines) ELSE lines
        Loads(row) == Len(row) = 6 /\ RowParses(row)
        rows == SelectSeq(body, Loads)
    IN  [i \in 1..Len(rows) |-> RowEvent(rows[i])]

\* STORE.append of each event of a list, in order
RECURSIVE AppendAll(_, _)
AppendAll(evs, new) ==
    IF new = <<>> THEN evs
    ELSE AppendAll(StoreAppend(evs, Head(new)), Tail(new))

\* the events of a list that initial_bootstrap appends
Recent(evs, cutoff) ==
    LET Keep(e) == e.timestamp >= cutoff IN SelectSeq(evs, Keep)

\* the number of lines of a list of files
RECURSIVE LinesOf(_)
LinesOf(files) ==
    IF files = <<>> THEN 0 ELSE Len(Head(files)) + LinesOf(Tail(files))

\* the lines written so far, to the journals and to the files moved away
LinesWritten ==
    LinesOf(<<journal["Binance"].lines, journal["OKX"].lines>>
                \o tail_env.moved["Binance"] \o tail_env.moved["OKX"])

\* an adapter (or any other writer) appends a row to a journal
JournalAppend(ex, row) ==
    /\ LinesWritten < 2 + MaxJournalRows
    /\ journal' = [journal EXCEPT ![ex].lines = Append(@, row)]
    /\ UNCHANGED <<events, tailer, now, hub_pc, boot_cutoff>>
    /\ UNCHANGED notHubVars

\* time passes
Tick ==
    /\ now < MaxTick * TimeStep
    /\ now' = now + TimeStep
    /\ UNCHANGED <<journal, events, tailer, hub_pc, boot_cutoff>>
    /\ UNCHANGED notHubVars

\* initial_bootstrap, at the start of the hub
initial_bootstrap ==
    /\ hub_pc = "off"
    /\ LET cutoff == now - Retention
           ba == Recent(InitialLoadFromCsv(journal["Binance"].lines), cutoff)
           okx == Recent(InitialLoadFromCsv(journal["OKX"].lines), cutoff)
       IN  /\ events' = AppendAll(AppendAll(events, ba), okx)
           /\ boot_cutoff' = cutoff
    /\ hub_pc' = "running"
    /\ UNCHANGED <<journal, tailer, now>>
    /\ UNCHANGED notHubVars

\* CsvTailer._read_new_lines: open the file, compare its identity, skip the
\* lines already processed
\* a mutant: every poll takes the file for a new one
InodeDiffersAlways(ex) == TRUE

\* a mutant: no poll takes the file for a new one
InodeDiffersNever(ex) == FALSE

\* "if self._file_inode != inode"
InodeDiffers(ex) == tailer[ex].file_inode # journal[ex].inode

\* the lines of the file the tailer has open: those of the journal, or those
\* of a file that was moved away while the tailer was reading it
OpenLines(ex) ==
    IF tailer[ex].file_inode = journal[ex].inode THEN journal[ex].lines
    ELSE tail_env.moved[ex][tailer[ex].file_inode]

TailerOpen(ex) ==
    /\ hub_pc = "running"
    /\ tailer[ex].pc = "sleep"
    /\ LET t == tailer[ex]
           rotated == InodeDiffers(ex)
           line_index == IF rotated THEN 0 ELSE t.line_index
           lines == Len(journal[ex].lines)
       IN  tailer' = [tailer EXCEPT ![ex] =
               [pc |-> "reading",
                file_inode |-> journal[ex].inode,
                line_index |-> line_index,
                has_header_checked |-> IF rotated THEN FALSE
                                       ELSE t.has_header_checked,
                idx |-> IF line_index < lines THEN line_index ELSE lines,
                last_index |-> line_index]]
    /\ UNCHANGED <<journal, events, now, hub_pc, boot_cutoff>>
    /\ UNCHANGED notHubVars

\* one turn of the loop over the reader: the header check, the width check,
\* _ingest_row
TailerRow(ex) ==
    /\ tailer[ex].pc = "reading"
    /\ tailer[ex].idx < Len(OpenLines(ex))
    /\ LET t == tailer[ex]
           row == OpenLines(ex)[t.idx + 1]
           first == ~t.has_header_checked /\ t.idx = 0
           ingest == /\ ~(first /\ row = HeaderRow)
                     /\ Len(row) = 6
                     /\ RowParses(row)
       IN  /\ tailer' = [tailer EXCEPT ![ex] =
                   [t EXCEPT !.has_header_checked = @ \/ first,
                             !.idx = @ + 1,
                             !.last_index = t.idx + 1]]
           /\ events' = IF ingest THEN StoreAppend(events, RowEvent(row))
                        ELSE events
           /\ tailed' = IF ingest
                        THEN [tailed EXCEPT
                                 ![ex] = Append(@, <<t.file_inode, t.idx + 1>>)]
                        ELSE tailed
    /\ UNCHANGED <<journal, now, hub_pc, boot_cutoff, tail_env>>
    /\ UNCHANGED <<baVars, okxVars, wsVars, apiVars, lockVars>>

\* the reader is exhausted: self._line_index = last_index
TailerEnd(ex) ==
    /\ tailer[ex].pc = "reading"
    /\ tailer[ex].idx >= Len(OpenLines(ex))
    /\ tailer' = [tailer EXCEPT ![ex].pc = "sleep",
                                ![ex].line_index = tailer[ex].last_index]
    /\ UNCHANGED <<journal, events, now, hub_pc, boot_cutoff>>
    /\ UNCHANGED notHubVars

\* EventStore.prune, called by the pruner thread
prune ==
    /\ hub_pc = "running"
    /\ events' = EvictOlderThan(events, now - Retention)
    /\ UNCHANGED <<journal, tailer, now, hub_pc, boot_cutoff>>
    /\ UNCHANGED notHubVars

HubInit ==
    /\ journal = [ex \in Exchanges |-> [inode |-> 1, lines |-> <<HeaderRow>>]]
    /\ events = <<>>
    /\ tailer = [ex \in Exchanges |->
                    [pc |-> "sleep", file_inode |-> 0, line_index |-> 0,
                     has_header_checked |-> FALSE, idx |-> 0, last_index |-> 0]]
    /\ now = 0
    /\ hub_pc = "off"
    /\ boot_cutoff = 0

\* an adapter of this version appends a row for an event of this moment
AdapterAppend(ex) == \E row \in AdapterRows(ex, now) : JournalAppend(ex, row)

\* a journal receives a row no adapter of this version writes
ForeignAppend(ex) == \E row \in ForeignRows(ex, now) : JournalAppend(ex, row)

HubSteps ==
    \/ initial_bootstrap
    \/ \E ex \in Exchanges : TailerOpen(ex)
    \/ \E ex \in Exchanges : TailerRow(ex)
    \/ \E ex \in Exchanges : TailerEnd(ex)
    \/ prune

HubNext ==
    \/ \E ex \in Exchanges : AdapterAppend(ex)
    \/ Tick
    \/ HubSteps

HubAnyNext ==
    \/ \E ex \in Exchanges : AdapterAppend(ex)
    \/ \E ex \in Exchanges : ForeignAppend(ex)
    \/ Tick
    \/ HubSteps

(***************************************************************************)
(* The hub: STORE.append with WsBroker.notify, and WsBroker.handler        *)
(***************************************************************************)

MaxWsAppends == 2

WsClients == {"ws1", "ws2"}

btc == <<"b", "t", "c">>

\* the keys of symbol_to_clients (a defaultdict) that the model uses
WsKeys == {BTC, ETH}

\* the symbols parameter of a connection, split at the commas
WsRequests == {<<BTC>>, <<ETH>>, <<btc, BTC>>, <<BTC, ETH>>, << <<>> >>}

\* str.strip, of blanks
RECURSIVE Strip(_)
Strip(t) ==
    IF t # <<>> /\ Head(t) = " " THEN Strip(Tail(t))
    ELSE IF t # <<>> /\ t[Len(t)] = " " THEN Strip(SubSeq(t, 1, Len(t) - 1))
    ELSE t

\* [s.strip().upper() for s in symbols_param.split(",") if s.strip()]
WsParseSymbols(request) ==
    LET NonEmpty(t) == t # <<>>
    IN  SelectSeq([i \in 1..Len(request) |-> Upper(Strip(request[i]))], NonEmpty)

\* the first message of a client that gave no symbol in its path: a text
\* that is no JSON, as its parts between the commas; a JSON object, with the
\* parts of its "symbols" string if it has one; a JSON value of another
\* kind (a number, a list)
WsText(parts) == [kind |-> "text", parts |-> parts]
WsJsonObject(symbols) == [kind |-> "object", symbols |-> symbols]
WsJsonOther == [kind |-> "other"]

\* "", ",", " , " and "{}" and '{"symbols": ""}' and '{"symbols": " ,"}'
\* and "123" supply no symbol
WsFirstMessages ==
    { WsText(<<BTC>>), WsText(<<btc, ETH>>),
      WsText(<< <<>> >>), WsText(<< <<>>, <<>> >>), WsText(<< <<" ">>, <<" ">> >>),
      WsJsonObject(<< <<ETH>> >>), WsJsonObject(<<>>),
      WsJsonObject(<< << <<>> >> >>), WsJsonObject(<< << <<" ">>, <<>> >> >>),
      WsJsonOther }

\* a mutant: a first message without a symbol subscribes to BTC
WsFirstSymbolsOrBTC(msg) ==
    IF msg.kind = "text" /\ WsParseSymbols(msg.parts) # <<>>
    THEN WsParseSymbols(msg.parts)
    ELSE <<BTC>>

\* the symbols of the first message: json.loads, obj.get("symbols", "") of
\* a dict and "if val", else the text split at its commas
WsFirstSymbols(msg) ==
    CASE msg.kind = "text" -> WsParseSymbols(msg.parts)
      [] msg.kind = "object" ->
            LET val == IF msg.symbols = <<>> THEN << <<>> >> ELSE msg.symbols[1]
            IN  IF val # << <<>> >> THEN WsParseSymbols(val) ELSE <<>>
      [] msg.kind = "other" -> <<>>

\* json.dumps({"error": "symbols required"})
SymbolsRequired == "symbols required"

\* a mutant: the subscribers of a symbol kept in a list
ListAdd(clients, ws) == Append(clients, ws)

\* set.add: the set is a list without repetition
SetAdd(clients, ws) ==
    IF \E i \in 1..Len(clients) : clients[i] = ws THEN clients
    ELSE Append(clients, ws)

\* set.discard
SetDiscard(clients, ws) ==
    LET Other(c) == c # ws IN SelectSeq(clients, Other)

\* "for s in symbols: self.symbol_to_clients[s].add(websocket)"
RECURSIVE Register(_, _, _)
Register(map, symbols, ws) ==
    IF symbols = <<>> THEN map
    ELSE Register([map EXCEPT ![Head(symbols)] = SetAdd(@, ws)],
                  Tail(symbols), ws)

\* a mutant: the connection is discarded from its first symbol only
UnregisterFirst(map, symbols, ws) ==
    IF symbols = <<>> THEN map
    ELSE [map EXCEPT ![Head(symbols)] = SetDiscard(@, ws)]

\* "for s in symbols: self.symbol_to_clients[s].discard(websocket)"
RECURSIVE Unregister(_, _, _)
Unregister(map, symbols, ws) ==
    IF symbols = <<>> THEN map
    ELSE Unregister([map EXCEPT ![Head(symbols)] = SetDiscard(@, ws)],
                    Tail(symbols), ws)

\* getattr(ws, "closed", False)
WsClosed(ws) ==
    ws_state[ws] \in {"closed", "unregistering", "done", "rejected", "aborted"}

\* a tailer thread calls STORE.append(event): the part under the store lock
StoreAppendLocked(thread, row) ==
    /\ appender[thread].pc = "idle"
    /\ ws_appends < MaxWsAppends
    /\ events' = StoreAppend(events, RowEvent(row))
    /\ ws_appends' = ws_appends + 1
    /\ appender' = [appender EXCEPT ![thread] =
           [pc |-> "notify", event |-> RowEvent(row), n |-> ws_appends + 1,
            targets |-> <<>>]]
    /\ UNCHANGED <<symbol_to_clients, ws_state, ws_symbols, ws_sent, ws_reply>>
    /\ UNCHANGED notWsVars

\* WsBroker.notify: the subscribers of the symbol, copied under the broker lock
NotifySnapshot(thread) ==
    /\ appender[thread].pc = "notify"
    /\ LET targets == symbol_to_clients[Upper(appender[thread].event.symbol)]
       IN  appender' = [appender EXCEPT
               ![thread].targets = targets,
               ![thread].pc = IF targets = <<>> THEN "idle" ELSE "send"]
    /\ UNCHANGED <<events, symbol_to_clients, ws_state, ws_symbols, ws_appends,
                   ws_sent, ws_reply>>
    /\ UNCHANGED notWsVars

\* WsBroker.notify: one turn of "for ws in targets"
NotifySend(thread) ==
    /\ appender[thread].pc = "send"
    /\ LET a == appender[thread]
           ws == Head(a.targets)
           key == Upper(a.event.symbol)
       IN  /\ IF WsClosed(ws)
              THEN /\ symbol_to_clients' =
                          [symbol_to_clients EXCEPT ![key] = SetDiscard(@, ws)]
                   /\ ws_sent' = ws_sent
              ELSE /\ ws_sent' = [ws_sent EXCEPT ![ws] = Append(@, a.n)]
                   /\ symbol_to_clients' = symbol_to_clients
           /\ appender' = [appender EXCEPT
                  ![thread].targets = Tail(a.targets),
                  ![thread].pc = IF Tail(a.targets) = <<>> THEN "idle"
                                 ELSE "send"]
    /\ UNCHANGED <<events, ws_state, ws_symbols, ws_appends, ws_reply>>
    /\ UNCHANGED notWsVars

\* WsBroker.handler from "if not symbols" on: without a symbol the error is
\* sent and the connection closed, else the connection is registered
WsSubscribe(ws, symbols) ==
    IF symbols = <<>>
    THEN /\ ws_state' = [ws_state EXCEPT ![ws] = "rejected"]
         /\ ws_reply' = [ws_reply EXCEPT ![ws] = Append(@, SymbolsRequired)]
         /\ UNCHANGED <<symbol_to_clients, ws_symbols>>
    ELSE /\ ws_state' = [ws_state EXCEPT ![ws] = "subscribed"]
         /\ ws_symbols' = [ws_symbols EXCEPT ![ws] = symbols]
         /\ symbol_to_clients' = Register(symbol_to_clients, symbols, ws)
         /\ UNCHANGED ws_reply

\* WsBroker.handler: a connection with its symbols parameter; without a
\* symbol in it the handler waits for the first message
WsConnect(ws, request) ==
    /\ ws_state[ws] = "new"
    /\ LET symbols == WsParseSymbols(request)
       IN  IF symbols = <<>>
           THEN /\ ws_state' = [ws_state EXCEPT ![ws] = "waiting"]
                /\ UNCHANGED <<symbol_to_clients, ws_symbols, ws_reply>>
           ELSE WsSubscribe(ws, symbols)
    /\ UNCHANGED <<events, appender, ws_appends, ws_sent>>
    /\ UNCHANGED notWsVars

\* WsBroker.handler: the first message arrives within the 30 s
WsFirstMessage(ws, msg) ==
    /\ ws_state[ws] = "waiting"
    /\ WsSubscribe(ws, WsFirstSymbols(msg))
    /\ UNCHANGED <<events, appender, ws_appends, ws_sent>>
    /\ UNCHANGED notWsVars

\* WsBroker.handler: asyncio.wait_for raises after 30 s without a message
WsFirstTimeout(ws) ==
    /\ ws_state[ws] = "waiting"
    /\ WsSubscribe(ws, <<>>)
    /\ UNCHANGED <<events, appender, ws_appends, ws_sent>>
    /\ UNCHANGED notWsVars

\* the client goes away during the wait: recv raises, symbols = [], and the
\* send of the error raises as well; the handler ends
WsGoneWaiting(ws) ==
    /\ ws_state[ws] = "waiting"
    /\ ws_state' = [ws_state EXCEPT ![ws] = "aborted"]
    /\ UNCHANGED <<events, symbol_to_clients, ws_symbols, appender, ws_appends,
                   ws_sent, ws_reply>>
    /\ UNCHANGED notWsVars

\* the client goes away: the transport is closed, "async for" will end
WsDisconnect(ws) ==
    /\ ws_state[ws] = "subscribed"
    /\ ws_state' = [ws_state EXCEPT ![ws] = "closed"]
    /\ UNCHANGED <<events, symbol_to_clients, ws_symbols, appender, ws_appends,
                   ws_sent, ws_reply>>
    /\ UNCHANGED notWsVars

\* WsBroker.handler: the finally clause
WsHandlerExit(ws) ==
    /\ ws_state[ws] = "closed"
    /\ symbol_to_clients' = Unregister(symbol_to_clients, ws_symbols[ws], ws)
    /\ ws_state' = [ws_state EXCEPT ![ws] = "done"]
    /\ UNCHANGED <<events, ws_symbols, appender, ws_appends, ws_sent, ws_reply>>
    /\ UNCHANGED notWsVars

WsInit ==
    /\ symbol_to_clients = [k \in WsKeys |-> <<>>]
    /\ ws_state = [ws \in WsClients |-> "new"]
    /\ ws_symbols = [ws \in WsClients |-> <<>>]
    /\ appender = [thread \in Exchanges |->
                      [pc |-> "idle",
                       event |-> RowEvent(CHOOSE r \in AdapterRows(thread, 0) : TRUE),
                       n |-> 0, targets |-> <<>>]]
    /\ ws_appends = 0
    /\ ws_sent = [ws \in WsClients |-> <<>>]
    /\ ws_reply = [ws \in WsClients |-> <<>>]

WsNext ==
    \/ \E thread \in Exchanges :
           \E row \in AdapterRows(thread, now) : StoreAppendLocked(thread, row)
    \/ \E thread \in Exchanges : NotifySnapshot(thread)
    \/ \E thread \in Exchanges : NotifySend(thread)
    \/ \E ws \in WsClients : \E request \in WsRequests : WsConnect(ws, request)
    \/ \E ws \in WsClients : \E msg \in WsFirstMessages : WsFirstMessage(ws, msg)
    \/ \E ws \in WsClients : WsFirstTimeout(ws)
    \/ \E ws \in WsClients : WsGoneWaiting(ws)
    \/ \E ws \in WsClients : WsDisconnect(ws)
    \/ \E ws \in WsClients : WsHandlerExit(ws)

(***************************************************************************)
(* Hub: STORE.lock and the broker's lock, one step per "with" entry and    *)
(* exit                                                                    *)
(***************************************************************************)

\* a lock nobody holds
Free == "free"

\* a mutant: notify is called inside the with block of append
HeldDuringNotify(thread) == thread

\* EventStore.append: the with block ends before the broker is notified
AfterAppend(thread) == Free

\* EventStore.append enters "with self.lock"
AppendAcquire(thread, row) ==
    /\ appender[thread].pc = "idle"
    /\ ws_appends < MaxWsAppends
    /\ locks.store = Free
    /\ locks' = [locks EXCEPT !.store = thread]
    /\ appender' = [appender EXCEPT ![thread] =
           [pc |-> "locked", event |-> RowEvent(row), n |-> ws_appends + 1,
            targets |-> <<>>]]
    /\ ws_appends' = ws_appends + 1
    /\ UNCHANGED <<events, symbol_to_clients, ws_state, ws_symbols, ws_sent,
                   ws_reply>>
    /\ UNCHANGED besideWsVars

\* EventStore.append: the body of the with block, and its exit
AppendRelease(thread) ==
    /\ appender[thread].pc = "locked"
    /\ events' = StoreAppend(events, appender[thread].event)
    /\ locks' = [locks EXCEPT !.store = AfterAppend(thread)]
    /\ appender' = [appender EXCEPT ![thread].pc = "notify"]
    /\ UNCHANGED <<symbol_to_clients, ws_state, ws_symbols, ws_appends,
                   ws_sent, ws_reply>>
    /\ UNCHANGED besideWsVars

\* WsBroker.notify enters "with self.lock" to copy the subscribers
NotifyAcquire(thread) ==
    /\ appender[thread].pc = "notify"
    /\ locks.broker = Free
    /\ locks' = [locks EXCEPT !.broker = thread]
    /\ appender' = [appender EXCEPT ![thread].pc = "snapshot"]
    /\ UNCHANGED <<events, symbol_to_clients, ws_state, ws_symbols, ws_appends,
                   ws_sent, ws_reply>>
    /\ UNCHANGED besideWsVars

\* WsBroker.notify: "targets = list(...)" and the exit of the with block
NotifyRelease(thread) ==
    /\ appender[thread].pc = "snapshot"
    /\ LET targets == symbol_to_clients[Upper(appender[thread].event.symbol)]
       IN  appender' = [appender EXCEPT
               ![thread].targets = targets,
               ![thread].pc = IF targets = <<>> THEN "idle" ELSE "send"]
    /\ locks' = [locks EXCEPT !.broker = Free]
    /\ UNCHANGED <<events, symbol_to_clients, ws_state, ws_symbols, ws_appends,
                   ws_sent, ws_reply>>
    /\ UNCHANGED besideWsVars

\* WsBroker.notify, one turn of "for ws in targets" with an open transport:
\* run_coroutine_threadsafe hands the send to the loop and returns
NotifySchedule(thread) ==
    /\ appender[thread].pc = "send"
    /\ LET a == appender[thread]
           ws == Head(a.targets)
       IN  /\ ~WsClosed(ws)
           /\ ws_sent' = [ws_sent EXCEPT ![ws] = Append(@, a.n)]
           /\ appender' = [appender EXCEPT
                  ![thread].targets = Tail(a.targets),
                  ![thread].pc = IF Tail(a.targets) = <<>> THEN "idle"
                                 ELSE "send"]
    /\ UNCHANGED <<events, symbol_to_clients, ws_state, ws_symbols, ws_appends,
                   ws_reply, locks>>
    /\ UNCHANGED besideWsVars

\* WsBroker.notify, a turn with a closed transport: "with self.lock" is
\* entered for the discard
DiscardAcquire(thread) ==
    /\ appender[thread].pc = "send"
    /\ WsClosed(Head(appender[thread].targets))
    /\ locks.broker = Free
    /\ locks' = [locks EXCEPT !.broker = thread]
    /\ appender' = [appender EXCEPT ![thread].pc = "discard"]
    /\ UNCHANGED <<events, symbol_to_clients, ws_state, ws_symbols, ws_appends,
                   ws_sent, ws_reply>>
    /\ UNCHANGED besideWsVars

\* WsBroker.notify: the discard, the exit of the with block and "continue"
DiscardRelease(thread) ==
    /\ appender[thread].pc = "discard"
    /\ LET a == appender[thread]
           key == Upper(a.event.symbol)
       IN  /\ symbol_to_clients' =
                  [symbol_to_clients EXCEPT
                      ![key] = SetDiscard(@, Head(a.targets))]
           /\ appender' = [appender EXCEPT
                  ![thread].targets = Tail(a.targets),
                  ![thread].pc = IF Tail(a.targets) = <<>> THEN "idle"
                                 ELSE "send"]
    /\ locks' = [locks EXCEPT !.broker = Free]
    /\ UNCHANGED <<events, ws_state, ws_symbols, ws_appends, ws_sent, ws_reply>>
    /\ UNCHANGED besideWsVars

\* EventStore.list_latest, called by a request thread, enters its with block
ListLatestAcquire ==
    /\ locks.reader = "idle"
    /\ locks.store = Free
    /\ locks' = [locks EXCEPT !.store = "reader", !.reader = "reading"]
    /\ UNCHANGED <<events, wsVars>>
    /\ UNCHANGED besideWsVars

\* EventStore.list_latest returns
ListLatestRelease ==
    /\ locks.reader = "reading"
    /\ locks' = [locks EXCEPT !.store = Free, !.reader = "idle"]
    /\ UNCHANGED <<events, wsVars>>
    /\ UNCHANGED besideWsVars

\* WsBroker.handler with symbols in the request enters "with self.lock"
HandlerAcquire(ws, request) ==
    /\ ws_state[ws] = "new"
    /\ WsParseSymbols(request) # <<>>
    /\ locks.broker = Free
    /\ locks' = [locks EXCEPT !.broker = ws]
    /\ ws_state' = [ws_state EXCEPT ![ws] = "registering"]
    /\ ws_symbols' = [ws_symbols EXCEPT ![ws] = WsParseSymbols(request)]
    /\ UNCHANGED <<events, symbol_to_clients, appender, ws_appends, ws_sent,
                   ws_reply>>
    /\ UNCHANGED besideWsVars

\* WsBroker.handler: the connection is registered and the with block left
HandlerRelease(ws) ==
    /\ ws_state[ws] = "registering"
    /\ symbol_to_clients' = Register(symbol_to_clients, ws_symbols[ws], ws)
    /\ ws_state' = [ws_state EXCEPT ![ws] = "subscribed"]
    /\ locks' = [locks EXCEPT !.broker = Free]
    /\ UNCHANGED <<events, ws_symbols, appender, ws_appends, ws_sent, ws_reply>>
    /\ UNCHANGED besideWsVars

\* WsBroker.handler: the finally clause enters "with self.lock"
FinallyAcquire(ws) ==
    /\ ws_state[ws] = "closed"
    /\ locks.broker = Free
    /\ locks' = [locks EXCEPT !.broker = ws]
    /\ ws_state' = [ws_state EXCEPT ![ws] = "unregistering"]
    /\ UNCHANGED <<events, symbol_to_clients, ws_symbols, appender, ws_appends,
                   ws_sent, ws_reply>>
    /\ UNCHANGED besideWsVars

\* WsBroker.handler: the finally clause discards and leaves the with block
FinallyRelease(ws) ==
    /\ ws_state[ws] = "unregistering"
    /\ symbol_to_clients' = Unregister(symbol_to_clients, ws_symbols[ws], ws)
    /\ ws_state' = [ws_state EXCEPT ![ws] = "done"]
    /\ locks' = [locks EXCEPT !.broker = Free]
    /\ UNCHANGED <<events, ws_symbols, appender, ws_appends, ws_sent, ws_reply>>
    /\ UNCHANGED besideWsVars

\* the requests of the connections made while the locks are watched
LockRequests == {<<BTC, ETH>>}

LockInit == locks = [store |-> Free, broker |-> Free, reader |-> "idle"]

LockNext ==
    \/ \E thread \in Exchanges :
           \E row \in AdapterRows(thread, now) : AppendAcquire(thread, row)
    \/ \E thread \in Exchanges : AppendRelease(thread)
    \/ \E thread \in Exchanges : NotifyAcquire(thread)
    \/ \E thread \in Exchanges : NotifyRelease(thread)
    \/ \E thread \in Exchanges : NotifySchedule(thread)
    \/ \E thread \in Exchanges : DiscardAcquire(thread)
    \/ \E thread \in Exchanges : DiscardRelease(thread)
    \/ ListLatestAcquire
    \/ ListLatestRelease
    \/ \E ws \in WsClients :
           \E request \in LockRequests : HandlerAcquire(ws, request)
    \/ \E ws \in WsClients : HandlerRelease(ws)
    \/ \E ws \in WsClients : WsDisconnect(ws)
    \/ \E ws \in WsClients : FinallyAcquire(ws)
    \/ \E ws \in WsClients : FinallyRelease(ws)

(***************************************************************************)
(* The hub: the read side of EventStore and the HTTP routes                *)
(***************************************************************************)

MaxStoreAppends == 2

LATEST_LIST_SIZE == 50

\* the largest limit of a request, next to LATEST_LIST_SIZE
MaxLimit == 2

AGG_WINDOWS_MINUTES == <<3, 15, 60, 240, 1440>>

\* the "[:10]" of the two top lists
TopCount == 10

\* Optional[...]: None is the empty tuple, a value x is <<x>>
None == <<>>
Some(x) == <<x>>

\* the events appended at time t; their times lie on and around the edge of
\* the shortest window, and one is older than the retention
StoreEvents(t) ==
    { [timestamp |-> t, symbol |-> BTC, exchange |-> "Binance",
       price |-> 100, direction |-> LongLiq, amount |-> 5000],
      [timestamp |-> t - 180, symbol |-> BTC, exchange |-> "OKX",
       price |-> 300, direction |-> LongLiq, amount |-> 3000],
      [timestamp |-> t - 181, symbol |-> BTC, exchange |-> "Binance",
       price |-> 200, direction |-> ShortLiq, amount |-> 2000],
      [timestamp |-> t, symbol |-> ETH, exchange |-> "OKX",
       price |-> 50, direction |-> LongLiq, amount |-> 5000],
      [timestamp |-> t - 180, symbol |-> ETH, exchange |-> "Binance",
       price |-> 50, direction |-> ShortLiq, amount |-> 1000],
      [timestamp |-> t - Retention - 1, symbol |-> BTC, exchange |-> "OKX",
       price |-> 100, direction |-> LongLiq, amount |-> 4000] }

\* LiquidationEvent.to_public_dict; strftime keeps the whole seconds
to_public_dict(e) ==
    [datetime |-> e.timestamp, symbol |-> e.symbol, exchange |-> e.exchange,
     price |-> e.price, direction |-> e.direction, amount |-> e.amount]

PublicDicts(items) == [i \in 1..Len(items) |-> to_public_dict(items[i])]

\* a mutant: the first n items
SliceFirst(items, n) ==
    IF n >= Len(items) THEN items ELSE SubSeq(items, 1, n)

\* items[-n:] for n >= 0: -0 is 0, so items[-0:] is the whole list
SliceLast(items, n) ==
    IF n = 0 \/ n >= Len(items) THEN items
    ELSE SubSeq(items, Len(items) - n + 1, Len(items))

\* EventStore.list_latest
list_latest(evs, limit) == PublicDicts(SliceLast(evs, limit))

\* "if x and ..." for an Optional list: None and the empty list are false
Truthy(opt) == opt # None /\ opt[1] # <<>>

\* a mutant: only the first item of the list is looked at
InListFirst(x, list) == list # <<>> /\ list[1] = x

\* "x in list"
InList(x, list) == \E i \in 1..Len(list) : list[i] = x

\* EventStore.query: the test of one event
QueryKeeps(e, since, until, symbols, exchanges, directions) ==
    /\ ~(since # None /\ e.timestamp < since[1])
    /\ ~(until # None /\ e.timestamp > until[1])
    /\ ~(Truthy(symbols) /\ ~InList(e.symbol, symbols[1]))
    /\ ~(Truthy(exchanges) /\ ~InList(e.exchange, exchanges[1]))
    /\ ~(Truthy(directions) /\ ~InList(e.direction, directions[1]))

\* EventStore.query
query(evs, since, until, symbols, exchanges, directions, limit) ==
    LET Keeps(e) == QueryKeeps(e, since, until, symbols, exchanges, directions)
        items == SelectSeq(evs, Keeps)
    IN  PublicDicts(IF limit # None THEN SliceLast(items, limit[1]) ELSE items)

\* a dict in insertion order: a list of <<key, value>>
DictHas(dict, key) == \E i \in 1..Len(dict) : dict[i][1] = key

DictGet(dict, key) ==
    dict[CHOOSE i \in 1..Len(dict) : dict[i][1] = key][2]

\* defaultdict(float): dict[key] += value
DictAdd(dict, key, value) ==
    IF DictHas(dict, key)
    THEN [i \in 1..Len(dict) |->
             IF dict[i][1] = key THEN <<key, dict[i][2] + value>> ELSE dict[i]]
    ELSE Append(dict, <<key, value>>)

\* one step of a stable sort by total, largest first: the item goes behind
\* the items of the same total
InsertByTotal(sorted, item) ==
    LET ahead == Cardinality({i \in 1..Len(sorted) : sorted[i][2] >= item[2]})
    IN  SubSeq(sorted, 1, ahead) \o <<item>>
            \o SubSeq(sorted, ahead + 1, Len(sorted))

\* sorted(dict.items(), key=lambda kv: kv[1], reverse=True)
RECURSIVE SortedByTotal(_)
SortedByTotal(dict) ==
    IF dict = <<>> THEN <<>>
    ELSE InsertByTotal(SortedByTotal(SubSeq(dict, 1, Len(dict) - 1)),
                       dict[Len(dict)])

\* dict(sorted(...)[:10])
TopOf(dict) ==
    LET sorted == SortedByTotal(dict)
    IN  IF Len(sorted) <= TopCount THEN sorted ELSE SubSeq(sorted, 1, TopCount)

IsBinance(e) == e.exchange \in {"Binance", "BA", "BinanceCN"}

\* a mutant: the event on the edge of the window is left out
BeforeOrAtWindow(e, window_start) == e.timestamp <= window_start

\* "if e.timestamp < window_start: continue"
BeforeWindow(e, window_start) == e.timestamp < window_start

\* EventStore.aggregates: the loop over the events of one window
RECURSIVE AggWindow(_, _, _)
AggWindow(evs, window_start, acc) ==
    IF evs = <<>> THEN acc
    ELSE LET e == Head(evs)
             next ==
                 IF BeforeWindow(e, window_start) THEN acc
                 ELSE IF e.direction = LongLiq
                 THEN [acc EXCEPT
                          !.longs = DictAdd(@, e.symbol, e.amount),
                          !.binance_long = IF IsBinance(e) THEN @ + e.amount ELSE @,
                          !.okx_long = IF ~IsBinance(e) /\ e.exchange = "OKX"
                                       THEN @ + e.amount ELSE @]
                 ELSE [acc EXCEPT
                          !.shorts = DictAdd(@, e.symbol, e.amount),
                          !.binance_short = IF IsBinance(e) THEN @ + e.amount ELSE @,
                          !.okx_short = IF ~IsBinance(e) /\ e.exchange = "OKX"
                                        THEN @ + e.amount ELSE @]
         IN  AggWindow(Tail(evs), window_start, next)

\* EventStore.aggregates, all of it under the store lock
aggregates(evs, t) ==
    [w \in 1..Len(AGG_WINDOWS_MINUTES) |->
        LET acc == AggWindow(evs, t - AGG_WINDOWS_MINUTES[w] * 60,
                       [longs |-> <<>>, shorts |-> <<>>,
                        binance_long |-> 0, binance_short |-> 0,
                        okx_long |-> 0, okx_short |-> 0])
        IN  [top_long |-> TopOf(acc.longs), top_short |-> TopOf(acc.shorts),
             binance_long |-> acc.binance_long,
             binance_short |-> acc.binance_short,
             okx_long |-> acc.okx_long, okx_short |-> acc.okx_short]]

\* a raw query parameter
ParamAbsent == [k |-> "absent", v |-> 0]
ParamDigits(n) == [k |-> "digits", v |-> n]
ParamDatetime(ts) == [k |-> "datetime", v |-> ts]
ParamGarbage == [k |-> "garbage", v |-> 0]

\* datetime.utcfromtimestamp(iv) + timedelta(hours=8), in seconds
EpochToLocal(iv) == iv + 8 * 3600

\* _parse_datetime_param; the epoch values of the model are in seconds
\* (below 10^12), and anything that raises gives None
parse_datetime_param(value) ==
    IF value.k = "absent" THEN None
    ELSE IF value.k = "digits" THEN Some(EpochToLocal(value.v))
    ELSE IF value.k = "datetime" THEN Some(value.v)
    ELSE None

\* int(limit) if (limit and limit.isdigit()) else None
ParseLimit(value) == IF value.k = "digits" THEN Some(value.v) ELSE None

NoArgs ==
    [since |-> ParamAbsent, until |-> ParamAbsent, symbols |-> None,
     exchanges |-> None, directions |-> None, limit |-> ParamAbsent]

\* the query strings of /history at time t
HistoryArgs(t) ==
    {NoArgs}
    \cup {[NoArgs EXCEPT !.since = v] :
            v \in {ParamDatetime(t - 180), ParamGarbage,
                   ParamDigits(t - 180 - 8 * 3600)}}
    \cup {[NoArgs EXCEPT !.until = v] :
            v \in {ParamDatetime(t - 180), ParamGarbage}}
    \cup {[NoArgs EXCEPT !.since = ParamDatetime(t - 180),
                         !.until = ParamDatetime(t - 180)]}
    \cup {[NoArgs EXCEPT !.symbols = Some(<<BTC>>)],
          [NoArgs EXCEPT !.symbols = Some(<<BTC, ETH>>)],
          [NoArgs EXCEPT !.exchanges = Some(<<"OKX">>)],
          [NoArgs EXCEPT !.directions = Some(<<LongLiq>>)],
          [NoArgs EXCEPT !.symbols = Some(<<BTC>>),
                         !.directions = Some(<<ShortLiq>>)]}
    \cup {[NoArgs EXCEPT !.limit = v] :
            v \in {ParamDigits(n) : n \in 0..MaxLimit} \cup {ParamGarbage}}
    \cup {[NoArgs EXCEPT !.symbols = Some(<<BTC>>), !.limit = ParamDigits(n)] :
            n \in 0..MaxLimit}

NoResponse ==
    [route |-> "none", status |-> 0, args |-> NoArgs, limit |-> 0,
     store |-> <<>>, now |-> 0, body |-> <<>>]

\* one record of per_symbol
NewRec ==
    [long_total |-> 0, short_total |-> 0, long_vwap_num |-> 0,
     long_vwap_den |-> 0, short_vwap_num |-> 0, short_vwap_den |-> 0]

RecAdd(rec, e) ==
    IF e.direction = LongLiq
    THEN [rec EXCEPT !.long_total = @ + e.amount,
                     !.long_vwap_num = @ + e.price * e.amount,
                     !.long_vwap_den = @ + e.amount]
    ELSE [rec EXCEPT !.short_total = @ + e.amount,
                     !.short_vwap_num = @ + e.price * e.amount,
                     !.short_vwap_den = @ + e.amount]

\* per_symbol[sym] updated with the event
PerSymbolAdd(per_symbol, sym, e) ==
    IF DictHas(per_symbol, sym)
    THEN [i \in 1..Len(per_symbol) |->
             IF per_symbol[i][1] = sym
             THEN <<sym, RecAdd(per_symbol[i][2], e)>> ELSE per_symbol[i]]
    ELSE Append(per_symbol, <<sym, RecAdd(NewRec, e)>>)

\* api_symbol_stats: the loop over the items for one window
RECURSIVE StatsLoop(_, _, _, _)
StatsLoop(items, window_start, symbol_filter, per_symbol) ==
    IF items = <<>> THEN per_symbol
    ELSE LET e == Head(items)
             sym == Upper(e.symbol)
             next ==
                 IF BeforeWindow(e, window_start) THEN per_symbol
                 ELSE IF Truthy(symbol_filter) /\ ~InList(sym, symbol_filter[1])
                 THEN per_symbol
                 ELSE PerSymbolAdd(per_symbol, sym, e)
         IN  StatsLoop(Tail(items), window_start, symbol_filter, next)

\* a mutant: the quotient upside down
QuotientInverted(num, den) == <<den, num>>

\* a quotient num / den is kept as the pair <<num, den>>
Quotient(num, den) == <<num, den>>

\* api_symbol_stats: what one window writes into the result tree
StatsWindowResult(items, t, symbol_filter, w) ==
    LET per_symbol ==
            StatsLoop(items, t - AGG_WINDOWS_MINUTES[w] * 60, symbol_filter, <<>>)
    IN  [i \in 1..Len(per_symbol) |->
            LET rec == per_symbol[i][2]
            IN  <<per_symbol[i][1],
                  [long_total |-> rec.long_total,
                   short_total |-> rec.short_total,
                   long_vwap |-> IF rec.long_vwap_den > 0
                                 THEN Some(Quotient(rec.long_vwap_num,
                                                    rec.long_vwap_den))
                                 ELSE None,
                   short_vwap |-> IF rec.short_vwap_den > 0
                                  THEN Some(Quotient(rec.short_vwap_num,
                                                     rec.short_vwap_den))
                                  ELSE None]>>]

\* set(s.strip().upper() for s in symbols.split(","))
UpperAll(opt) ==
    IF opt = None THEN None
    ELSE Some([i \in 1..Len(opt[1]) |-> Upper(opt[1][i])])

\* the symbols parameters of /symbol_stats and /stream
SymbolParams == {None, Some(<<btc>>)}

\* a mutant: the windows read the store, not the copy
StatsLiveItems == events

\* api_symbol_stats: the items its windows are computed from
StatsItems == stats.items

\* the matching events appended while the stream is open, for the history
SseMatches(e) ==
    ~(Truthy(sse.symbol_set) /\ ~InList(Upper(e.symbol), sse.symbol_set[1]))

\* a tailer thread calls STORE.append(e)
StoreCallAppend(e) ==
    /\ hub_pc = "running"
    /\ api_response.route = "none"
    /\ store_last.n < MaxStoreAppends
    /\ events' = StoreAppend(events, e)
    /\ store_last' = [n |-> store_last.n + 1, event |-> Some(e)]
    /\ sse' = IF sse.pc = "open"
              THEN [sse EXCEPT
                       !.appended = IF SseMatches(e) THEN Append(@, e) ELSE @,
                       !.fresh = FALSE]
              ELSE sse
    /\ UNCHANGED <<api_response, stats>>
    /\ UNCHANGED notApiVars

\* GET /data
api_data ==
    /\ api_response.route = "none"
    /\ api_response' = [NoResponse EXCEPT
           !.route = "data", !.status = 200, !.store = events, !.now = now,
           !.body = aggregates(events, now)]
    /\ UNCHANGED <<events, store_last, stats, sse>>
    /\ UNCHANGED notApiVars

\* STORE.list_latest(limit); GET /latest_liquidations asks for
\* LATEST_LIST_SIZE
api_latest(limit) ==
    /\ api_response.route = "none"
    /\ api_response' = [NoResponse EXCEPT
           !.route = "latest", !.status = 200, !.store = events, !.now = now,
           !.limit = limit, !.body = list_latest(events, limit)]
    /\ UNCHANGED <<events, store_last, stats, sse>>
    /\ UNCHANGED notApiVars

\* GET /history
api_history(args) ==
    /\ api_response.route = "none"
    /\ api_response' = [NoResponse EXCEPT
           !.route = "history", !.status = 200, !.store = events, !.now = now,
           !.args = args,
           !.body = query(events,
                          parse_datetime_param(args.since),
                          parse_datetime_param(args.until),
                          args.symbols, args.exchanges, args.directions,
                          ParseLimit(args.limit))]
    /\ UNCHANGED <<events, store_last, stats, sse>>
    /\ UNCHANGED notApiVars

\* GET /symbol_stats: the parameter and the clock are read
StatsBegin(symbols) ==
    /\ api_response.route = "none"
    /\ stats.pc = "idle"
    /\ stats' = [stats EXCEPT !.pc = "lock", !.now = now,
                              !.symbol_filter = UpperAll(symbols)]
    /\ UNCHANGED <<events, store_last, api_response, sse>>
    /\ UNCHANGED notApiVars

\* GET /symbol_stats: "with STORE.lock: items = list(STORE.events)"
StatsSnapshot ==
    /\ stats.pc = "lock"
    /\ stats' = [stats EXCEPT !.pc = "windows", !.items = events, !.w = 1]
    /\ UNCHANGED <<events, store_last, api_response, sse>>
    /\ UNCHANGED notApiVars

\* GET /symbol_stats: one turn of "for minutes in AGG_WINDOWS_MINUTES"
StatsWindow ==
    /\ stats.pc = "windows"
    /\ stats.w <= Len(AGG_WINDOWS_MINUTES)
    /\ stats' = [stats EXCEPT
           !.results = Append(@, StatsWindowResult(StatsItems, stats.now,
                                                   stats.symbol_filter, stats.w)),
           !.w = @ + 1]
    /\ UNCHANGED <<events, store_last, api_response, sse>>
    /\ UNCHANGED notApiVars

\* GET /symbol_stats: jsonify(results)
StatsRespond ==
    /\ stats.pc = "windows"
    /\ stats.w > Len(AGG_WINDOWS_MINUTES)
    /\ api_response' = [NoResponse EXCEPT
           !.route = "symbol_stats", !.status = 200, !.store = stats.items,
           !.now = stats.now,
           !.args = [NoArgs EXCEPT !.symbols = stats.symbol_filter],
           !.body = stats.results]
    /\ stats' = [stats EXCEPT !.pc = "idle", !.results = <<>>]
    /\ UNCHANGED <<events, store_last, sse>>
    /\ UNCHANGED notApiVars

\* a mutant: every event of the store is yielded
iter_all(evs, since_ts) == evs

\* EventStore.iter_since
iter_since(evs, since_ts) ==
    LET After(e) == e.timestamp > since_ts IN SelectSeq(evs, After)

\* GET /stream: the generator starts
SseOpen(symbols) ==
    /\ hub_pc = "running"
    /\ sse.pc = "closed"
    /\ sse' = [sse EXCEPT !.pc = "open", !.last_ts = now,
                          !.symbol_set = UpperAll(symbols)]
    /\ UNCHANGED <<events, store_last, api_response, stats>>
    /\ UNCHANGED notApiVars

\* GET /stream: one turn of the generator's loop
SseTick ==
    /\ sse.pc = "open"
    /\ LET new_items == PublicDicts(SelectSeq(iter_since(events, sse.last_ts),
                                              SseMatches))
       IN  sse' = IF new_items # <<>>
                  THEN [sse EXCEPT
                           !.last_ts = new_items[Len(new_items)].datetime,
                           !.frames = Append(@, new_items),
                           !.fresh = TRUE]
                  ELSE [sse EXCEPT !.fresh = TRUE]
    /\ UNCHANGED <<events, store_last, api_response, stats>>
    /\ UNCHANGED notApiVars

ApiInit ==
    /\ store_last = [n |-> 0, event |-> None]
    /\ api_response = NoResponse
    /\ stats = [pc |-> "idle", now |-> 0, symbol_filter |-> None,
                items |-> <<>>, w |-> 1, results |-> <<>>]
    /\ sse = [pc |-> "closed", last_ts |-> 0, symbol_set |-> None,
              frames |-> <<>>, appended |-> <<>>, fresh |-> TRUE]

\* the store behind the HTTP routes
StoreNext ==
    \/ initial_bootstrap
    \/ Tick
    \/ prune
    \/ \E e \in StoreEvents(now) : StoreCallAppend(e)
    \/ api_data
    \/ \E limit \in (0..MaxLimit) \cup {LATEST_LIST_SIZE} : api_latest(limit)
    \/ \E args \in HistoryArgs(now) : api_history(args)

\* the store behind a /symbol_stats request
StatsNext ==
    \/ initial_bootstrap
    \/ Tick
    \/ \E e \in StoreEvents(now) : StoreCallAppend(e)
    \/ \E symbols \in SymbolParams : StatsBegin(symbols)
    \/ StatsSnapshot
    \/ StatsWindow
    \/ StatsRespond

\* the store behind a /stream client
SseNext ==
    \/ initial_bootstrap
    \/ Tick
    \/ \E e \in StoreEvents(now) : StoreCallAppend(e)
    \/ \E symbols \in SymbolParams : SseOpen(symbols)
    \/ SseTick

(***************************************************************************)
(* The hub: polls that are aborted, journals that are replaced             *)
(***************************************************************************)

MaxTailerErrors == 1

MaxRotations == 1

\* CsvTailer.run: the reader raises in the middle of a poll (a line that
\* cannot be decoded or parsed as CSV); _read_new_lines is left before
\* "self._line_index = last_index", run() prints the error and sleeps
TailerError(ex) ==
    /\ tailer[ex].pc = "reading"
    /\ tail_env.errors < MaxTailerErrors
    /\ tailer' = [tailer EXCEPT ![ex].pc = "sleep"]
    /\ tail_env' = [tail_env EXCEPT !.errors = @ + 1]
    /\ UNCHANGED <<journal, events, now, hub_pc, boot_cutoff, tailed>>
    /\ UNCHANGED <<baVars, okxVars, wsVars, apiVars, lockVars>>

\* the file that takes the place of a journal moved away: made by the
\* adapter's next open(csv_file, 'a'), without a header, or by an adapter
\* that is started again, with one
NewFiles == {<<>>, <<HeaderRow>>}

\* the journal is moved away, a tailer that has it open keeps reading it
JournalRotate(ex, file) ==
    /\ tail_env.rotations < MaxRotations
    /\ journal[ex].lines # <<>>
    /\ LinesWritten + Len(file) <= 2 + MaxJournalRows
    /\ journal' = [journal EXCEPT ![ex] = [inode |-> @.inode + 1, lines |-> file]]
    /\ tail_env' = [tail_env EXCEPT !.rotations = @ + 1,
                                    !.moved[ex] = Append(@, journal[ex].lines)]
    /\ UNCHANGED <<events, tailer, now, hub_pc, boot_cutoff, tailed>>
    /\ UNCHANGED <<baVars, okxVars, wsVars, apiVars, lockVars>>

TailInit ==
    /\ tailed = [ex \in Exchanges |-> <<>>]
    /\ tail_env = [errors |-> 0, rotations |-> 0,
                   moved |-> [ex \in Exchanges |-> <<>>]]

\* the adapters and the tailers, without a clock
TailSteps ==
    \/ initial_bootstrap
    \/ \E ex \in Exchanges : AdapterAppend(ex)
    \/ \E ex \in Exchanges : TailerOpen(ex)
    \/ \E ex \in Exchanges : TailerRow(ex)
    \/ \E ex \in Exchanges : TailerEnd(ex)

\* ... with polls that fail
TailErrNext ==
    \/ TailSteps
    \/ \E ex \in Exchanges : TailerError(ex)

\* ... with journals that are replaced
TailRotNext ==
    \/ TailSteps
    \/ \E ex \in Exchanges : \E file \in NewFiles : JournalRotate(ex, file)

\* a journal receives a row that is cut short or holds a field that does
\* not parse
MalformedAppend(ex) ==
    \E row \in MalformedRows(ex, now) : JournalAppend(ex, row)

\* ... with malformed rows in one of the journals, which may be replaced by
\* a file without a header (both tailers run the same CsvTailer code)
TailBadNext ==
    \/ TailSteps
    \/ MalformedAppend("OKX")
    \/ JournalRotate("OKX", <<>>)

\* what the tailer thread of an exchange does
TailerStep(ex) == TailerOpen(ex) \/ TailerRow(ex) \/ TailerEnd(ex)

\* the adapters' listen loops, without the messages
ListenNext ==
    \/ \E file \in InitialCacheFiles : OkxLoadCache(file)
    \/ BaListen
    \/ OkxListen

(***************************************************************************)
(* Specifications                                                          *)
(***************************************************************************)

Init ==
    BaInit /\ OkxInit /\ HubInit /\ WsInit /\ ApiInit /\ TailInit /\ LockInit

\* the Binance adapter alone
SpecBa == Init /\ [][BaNext]_vars

\* the OKX adapter alone
SpecOkx == Init /\ [][OkxNext]_vars

\* the hub reading journals that the adapters are writing
SpecHub == Init /\ [][HubNext]_vars

\* the hub reading journals of any content
SpecHubAny == Init /\ [][HubAnyNext]_vars

\* the tailer threads appending to the store and notifying the WebSocket
\* clients
SpecWs == Init /\ [][WsNext]_vars

\* the appending threads, a request thread and the WebSocket handlers, with
\* every entry and exit of a "with self.lock" block a step of its own
SpecLock == Init /\ [][LockNext]_vars

\* the tailers appending to the store while the HTTP routes read it
SpecStore == Init /\ [][StoreNext]_vars

\* the tailers appending to the store while /symbol_stats is computed
SpecStats == Init /\ [][StatsNext]_vars

\* the adapters writing the journals and the tailers reading them; the
\* tailer threads and the boot are not held up for ever
SpecTailFair ==
    /\ Init /\ [][TailSteps]_vars
    /\ WF_vars(initial_bootstrap)
    /\ \A ex \in Exchanges : WF_vars(TailerStep(ex))

\* the connections of the two adapters, where no sleep lasts for ever
SpecListenFair ==
    /\ Init /\ [][ListenNext]_vars
    /\ WF_vars(BaSleepDone)
    /\ WF_vars(OkxSleepDone)

\* ... where a poll may fail
SpecTailErr == Init /\ [][TailErrNext]_vars

\* ... where a journal may be replaced
SpecTailRot == Init /\ [][TailRotNext]_vars

\* ... where a journal may be replaced and may hold malformed rows
SpecTailBad == Init /\ [][TailBadNext]_vars

\* the tailers appending to the store while a /stream client is served
SpecSse == Init /\ [][SseNext]_vars

(***************************************************************************)
(* Claims about the adapters                                               *)
(***************************************************************************)

EndsWith(s, suffix) ==
    /\ Len(s) >= Len(suffix)
    /\ SubSeq(s, Len(s) - Len(suffix) + 1, Len(s)) = suffix

LastRow(rows) == rows[Len(rows)]

\* C6: neither adapter journals an event whose notional (quantity in coins
\* x price) is below 10 USDT, and an event of at least 10 USDT with a valid
\* direction is journaled.  For Binance the notional is q x ap (thousandths),
\* for OKX sz x face value x bkPx (tenths).
C6_NoRowBelowThreshold ==
    /\ ba_counter.total_received > 0 =>
           (ba_last.wrote <=> ba_last.ev.q * ba_last.ev.ap >= 10 * 1000)
    /\ okx_last.how \in {"hit", "rest"} =>
           LET notional == okx_last.detail.sz * FaceValue(okx_last.instId)
                               * okx_last.detail.bkPx.v
               valid == \/ okx_last.detail.side = "sell" /\ okx_last.detail.posSide = "long"
                        \/ okx_last.detail.side = "buy" /\ okx_last.detail.posSide = "short"
           IN  /\ okx_last.wrote => notional >= 10 * 10
               /\ (notional >= 10 * 10 /\ valid) => okx_last.wrote

\* C7: once a REST conversion of a contract id has succeeded, no later
\* conversion of that id calls REST (none is in progress, none has failed or
\* succeeded again) and a later conversion returns sz x the cached ratio;
\* so there is at most one successful REST resolution per contract id.
C7_OneRestResolution ==
    /\ \A i \in InstIds : okx_rest_ok[i] <= 1
    /\ okx_pc = "rest" => okx_rest_ok[okx_cur[1].instId] = 0
    /\ (okx_rest_ok[okx_last.instId] = 1 /\ okx_last.how # "noprice") =>
           /\ okx_last.how \in {"hit", "rest"}
           /\ okx_last.how = "hit" => okx_last.calls = 0
           /\ okx_last.converted
                  = okx_last.detail.sz * conversion_cache[okx_last.instId]

\* a conversion answered from the cache after REST resolved that contract
C7_Witness ==
    /\ okx_last.how = "hit"
    /\ okx_rest_ok[okx_last.instId] = 1

C9_StrictDirection ==
    /\ \A n \in 1..Len(okx_journal) : okx_journal[n][5] \in {LongLiq, ShortLiq}
    /\ okx_last.wrote =>
           \/ /\ okx_last.detail.side = "sell"
              /\ okx_last.detail.posSide = "long"
              /\ LastRow(okx_journal)[5] = LongLiq
           \/ /\ okx_last.detail.side = "buy"
              /\ okx_last.detail.posSide = "short"
              /\ LastRow(okx_journal)[5] = ShortLiq

\* a row is in the journal and the last detail, converted and of an invalid
\* combination, wrote none
C9_Witness ==
    /\ okx_journal # <<>>
    /\ okx_last.how \in {"hit", "rest"}
    /\ okx_last.detail.side = "buy"
    /\ okx_last.detail.posSide = "long"
    /\ okx_last.detail.sz * FaceValue(okx_last.instId) * okx_last.detail.bkPx.v
           >= 10 * 10
    /\ ~okx_last.wrote

\* what C10 says of the row's timestamp, symbol and direction
C10_RowHead(ev, row) ==
    /\ row[1] = Num((ev.E \div 1000) + 28800)
    /\ IF EndsWith(ev.s, USDT) THEN row[2] \o USDT = ev.s
       ELSE IF EndsWith(ev.s, USDC) THEN row[2] \o USDC = ev.s
       ELSE row[2] = ev.s
    /\ row[5] = (IF ev.S = "BUY" THEN ShortLiq ELSE LongLiq)
    /\ row[6].k = "num"

\* C10 as stated: the journaled row has timestamp floor(E/1000) + 8h, the
\* symbol without its USDT/USDC suffix, the direction by side, and
\* amount = quantity x price.
C10_AmountIsProduct ==
    ba_last.wrote =>
        /\ C10_RowHead(ba_last.ev, LastRow(ba_journal))
        /\ LastRow(ba_journal)[6].v * 10 = ba_last.ev.q * ba_last.ev.ap

\* C10 amended: as above, the amount being quantity x price rounded to two
\* decimals (within half a hundredth of the product).
C10_BaNormalization ==
    ba_last.wrote =>
        /\ C10_RowHead(ba_last.ev, LastRow(ba_journal))
        /\ LET d == LastRow(ba_journal)[6].v * 10 - ba_last.ev.q * ba_last.ev.ap
           IN  -5 <= d /\ d <= 5

\* a row was written for a BUY of a USDC pair whose product has a third decimal
C10_Witness ==
    /\ ba_last.wrote
    /\ ba_last.ev.S = "BUY"
    /\ ba_last.ev.s = ETHUSDC
    /\ ba_last.ev.E = 1999
    /\ (ba_last.ev.q * ba_last.ev.ap) % 10 # 0

(***************************************************************************)
(* Claims about the hub                                                    *)
(***************************************************************************)

\* the number of places of a sequence that hold x
Count(seq, x) == Cardinality({i \in 1..Len(seq) : seq[i] = x})

\* the events written to the journals: one for each row after the header
JournalEvents ==
    LET rowsOf(ex) == Tail(journal[ex].lines)
        evs(ex) == [i \in 1..Len(rowsOf(ex)) |-> RowEvent(rowsOf(ex)[i])]
    IN  evs("Binance") \o evs("OKX")

\* C1: after prune() at time now, every event left in the store has a
\* timestamp of at least now - retention.
C1_RetentionAfterPrune ==
    [][prune => \A i \in 1..Len(events') :
                    events'[i].timestamp >= now - Retention]_vars

\* C2: when a hub has booted against the journals (initial_bootstrap, then
\* both tailers have read their journal to its end) at time now, the store
\* holds each written event with ts >= now - retention exactly once and no
\* other event.
C2_JournalRoundTrip ==
    ( /\ hub_pc = "running"
      /\ boot_cutoff = now - Retention
      /\ \A ex \in Exchanges :
             /\ tailer[ex].pc = "sleep"
             /\ tailer[ex].file_inode = journal[ex].inode
             /\ tailer[ex].line_index = Len(journal[ex].lines) )
    => \A i \in 1..Len(JournalEvents) \cup (Len(JournalEvents) + 1
                                            ..Len(JournalEvents) + Len(events)) :
           LET e == IF i <= Len(JournalEvents) THEN JournalEvents[i]
                    ELSE events[i - Len(JournalEvents)]
           IN  Count(events, e) =
                   IF e.timestamp >= now - Retention
                   THEN Count(JournalEvents, e) ELSE 0

\* C5: every event in the store has amount >= 10 USDT, price > 0, one of the
\* two directions, and an upper-case symbol without a USDT/USDC suffix.
C5_StoredEventsValid ==
    \A i \in 1..Len(events) :
        /\ events[i].amount >= 10 * 100
        /\ events[i].price > 0
        /\ events[i].direction \in {LongLiq, ShortLiq}
        /\ events[i].symbol = Upper(events[i].symbol)
        /\ ~EndsWith(events[i].symbol, USDT)
        /\ ~EndsWith(events[i].symbol, USDC)

(***************************************************************************)
(* Claims about the WebSocket push                                         *)
(***************************************************************************)

\* C3: a subscriber is handed the events in the order in which they were
\* appended to the store.
C3_SendOrderIsAppendOrder ==
    \A ws \in WsClients :
        \A i, j \in 1..Len(ws_sent[ws]) :
            i < j => ws_sent[ws][i] < ws_sent[ws][j]

\* C4: no append is handed to the same subscriber twice.
C4_AtMostOnce ==
    \A ws \in WsClients :
        \A i, j \in 1..Len(ws_sent[ws]) :
            i # j => ws_sent[ws][i] # ws_sent[ws][j]

\* a client that listed BTC twice was handed two events before its handler
\* unregistered it
C4_Witness ==
    \E ws \in WsClients :
        /\ ws_symbols[ws] = <<BTC, BTC>>
        /\ Len(ws_sent[ws]) >= 2
        /\ ws_state[ws] = "done"

(***************************************************************************)
(* Claims about the read side of the store                                 *)
(***************************************************************************)

\* C11 as stated: while e is the event of the latest append, list_latest(1)
\* returns exactly e.
C11_LatestIsLastAppended ==
    store_last.event # None =>
        list_latest(events, 1) = <<to_public_dict(store_last.event[1])>>

\* C11, amended: append(e) leaves e as the last event of the store whatever
\* its timestamp, and while e is the event of the latest append,
\* list_latest(1) returns exactly e unless prune() has evicted e, and then
\* the store is empty.
C11_LatestUntilEvicted ==
    /\ [][\A e \in StoreEvents(now) :
              StoreCallAppend(e) =>
                  list_latest(events', 1) = <<to_public_dict(e)>>]_vars
    /\ [](store_last.event # None =>
              \/ list_latest(events, 1) = <<to_public_dict(store_last.event[1])>>
              \/ events = <<>>)

\* the latest append was of an event older, by more than the retention, than
\* the event in front of it
C11_Witness ==
    /\ store_last.event # None
    /\ Len(events) >= 2
    /\ events[Len(events)] = store_last.event[1]
    /\ events[Len(events)].timestamp < events[1].timestamp - Retention

\* the sum of the amounts of a list of events
RECURSIVE SumAmount(_)
SumAmount(evs) ==
    IF evs = <<>> THEN 0 ELSE Head(evs).amount + SumAmount(Tail(evs))

\* the events of the snapshot with ts >= t - w minutes, of one direction
InWindow(evs, t, w, direction) ==
    LET In(e) == /\ e.timestamp >= t - AGG_WINDOWS_MINUTES[w] * 60
                 /\ e.direction = direction
    IN  SelectSeq(evs, In)

OfSymbol(evs, symbol) ==
    LET Is(e) == e.symbol = symbol IN SelectSeq(evs, Is)

OfExchange(evs, exchange) ==
    LET Is(e) == e.exchange = exchange IN SelectSeq(evs, Is)

Letters == <<"B", "C", "E", "H", "T">>

LetterRank(c) == CHOOSE i \in 1..Len(Letters) : Letters[i] = c

\* a < b for two texts, as Python compares str
RECURSIVE LexLess(_, _)
LexLess(a, b) ==
    IF b = <<>> THEN FALSE
    ELSE IF a = <<>> THEN TRUE
    ELSE IF Head(a) # Head(b) THEN LetterRank(Head(a)) < LetterRank(Head(b))
    ELSE LexLess(Tail(a), Tail(b))

\* a top list in descending order of total, equal totals in ascending order
\* of symbol
TopOrdered(top) ==
    \A i, j \in 1..Len(top) :
        i < j => \/ top[i][2] > top[j][2]
                 \/ top[i][2] = top[j][2] /\ LexLess(top[i][1], top[j][1])

\* C13: in the response of /data, top_long and top_short of every window
\* are in descending order of total, and symbols of equal totals are in
\* lexicographically ascending order.
C13_TopListsOrdered ==
    api_response.route = "data" =>
        \A w \in 1..Len(AGG_WINDOWS_MINUTES) :
            /\ TopOrdered(api_response.body[w].top_long)
            /\ TopOrdered(api_response.body[w].top_short)

\* the sum of price x amount of a list of events
RECURSIVE SumPriceAmount(_)
SumPriceAmount(evs) ==
    IF evs = <<>> THEN 0
    ELSE Head(evs).price * Head(evs).amount + SumPriceAmount(Tail(evs))

OfUpperSymbol(evs, symbol) ==
    LET Is(e) == Upper(e.symbol) = symbol IN SelectSeq(evs, Is)

\* the vwap reported for a list of events: the quotient of the two sums,
\* between the smallest and the largest price, or null without amount
VwapOf(vwap, total, evs) ==
    IF total > 0
    THEN /\ vwap = Some(<<SumPriceAmount(evs), SumAmount(evs)>>)
         /\ \E lo \in 1..Len(evs) :
                /\ \A k \in 1..Len(evs) : evs[lo].price <= evs[k].price
                /\ evs[lo].price * vwap[1][2] <= vwap[1][1]
         /\ \E hi \in 1..Len(evs) :
                /\ \A k \in 1..Len(evs) : evs[hi].price >= evs[k].price
                /\ vwap[1][1] <= evs[hi].price * vwap[1][2]
    ELSE vwap = None

Passes(e, since, until, symbols, exchanges, directions) ==
    /\ since = None \/ since[1] <= e.timestamp
    /\ until = None \/ e.timestamp <= until[1]
    /\ symbols = None \/ \E i \in 1..Len(symbols[1]) : symbols[1][i] = e.symbol
    /\ exchanges = None
           \/ \E i \in 1..Len(exchanges[1]) : exchanges[1][i] = e.exchange
    /\ directions = None
           \/ \E i \in 1..Len(directions[1]) : directions[1][i] = e.direction

\* the events of the store that pass the filters of the response's request
HistoryMatches ==
    LET a == api_response.args
        Ok(e) == Passes(e, parse_datetime_param(a.since),
                        parse_datetime_param(a.until),
                        a.symbols, a.exchanges, a.directions)
    IN  SelectSeq(api_response.store, Ok)

\* C17: without a limit, query returns exactly the stored events that pass
\* every supplied filter, in the order of the store, and the call leaves the
\* store unchanged.
C17_QueryIsFilter ==
    /\ []((api_response.route = "history"
              /\ ParseLimit(api_response.args.limit) = None) =>
             api_response.body = PublicDicts(HistoryMatches))
    /\ [][(api_response'.route = "history" /\ api_response.route = "none") =>
             events' = events]_vars

\* a response of /history that keeps one of two stored events
C17_Witness ==
    /\ api_response.route = "history"
    /\ ParseLimit(api_response.args.limit) = None
    /\ api_response.args.symbols = Some(<<BTC, ETH>>)
    /\ Len(api_response.store) = 2
    /\ api_response.store[1].symbol = ETH
    /\ Len(api_response.body) = 2

Min(a, b) == IF a <= b THEN a ELSE b

\* the last n items of a list, all of them if there are fewer
LastN(items, n) ==
    SubSeq(items, Len(items) - Min(n, Len(items)) + 1, Len(items))

\* C18: list_latest(n) returns the last min(n, size) stored events and
\* query(limit=n) the last min(n, matches) matching events, for every
\* n >= 0, so neither returns more than n events.
C18_LastNTruncation ==
    /\ api_response.route = "latest" =>
           /\ api_response.body =
                  PublicDicts(LastN(api_response.store, api_response.limit))
           /\ Len(api_response.body) <= api_response.limit
    /\ (api_response.route = "history"
           /\ ParseLimit(api_response.args.limit) # None) =>
           LET n == ParseLimit(api_response.args.limit)[1]
           IN  /\ api_response.body = PublicDicts(LastN(HistoryMatches, n))
               /\ Len(api_response.body) <= n

\* C19: a request of /history whose since or until cannot be parsed is
\* answered with status 400.
C19_UnparseableIs400 ==
    (/\ api_response.route = "history"
     /\ \/ api_response.args.since.k = "garbage"
        \/ api_response.args.until.k = "garbage") =>
        api_response.status = 400

(***************************************************************************)
(* Claims about the /stream client                                         *)
(***************************************************************************)

\* the concatenation of the frames
RECURSIVE Concat(_)
Concat(frames) ==
    IF frames = <<>> THEN <<>> ELSE Head(frames) \o Concat(Tail(frames))

\* C16: for a stream with a symbols filter, after a turn of the stream's
\* loop the frames emitted so far hold exactly the matching events appended
\* to the store since the stream was opened, each once and in the order of
\* their appends.
C16_StreamDeliversAppends ==
    (sse.pc = "open" /\ sse.fresh /\ sse.symbol_set # None) =>
        Concat(sse.frames) = PublicDicts(sse.appended)

(***************************************************************************)
(* Claims about the order of the journals                                  *)
(***************************************************************************)

\* the rows of a journal, without its header, are in non-decreasing order
\* of timestamp
TimeOrdered(rows) ==
    \A i, j \in 1..Len(rows) :
        (i < j /\ rows[i] # HeaderRow /\ rows[j] # HeaderRow) =>
            rows[i][1].v <= rows[j][1].v

\* C20: within each journal the rows written by its adapter are in
\* non-decreasing order of timestamp, whatever the order of the event times
\* of the messages received.
C20_JournalTimeOrdered ==
    TimeOrdered(ba_journal) /\ TimeOrdered(okx_journal)

(***************************************************************************)
(* Claims about the tailers                                                *)
(***************************************************************************)

\* the events of one exchange, in the order of the store
EventsOf(ex) ==
    LET Is(e) == e.exchange = ex IN SelectSeq(events, Is)

\* C21: for each exchange, the events of that exchange in the store, read
\* in insertion order, have non-decreasing timestamps, the journals being
\* in non-decreasing order themselves.
C21_StoreOrderedPerExchange ==
    (TimeOrdered(journal["Binance"].lines) /\ TimeOrdered(journal["OKX"].lines))
        => \A ex \in Exchanges :
               \A i, j \in 1..Len(EventsOf(ex)) :
                   i < j => EventsOf(ex)[i].timestamp <= EventsOf(ex)[j].timestamp

\* the line numbers a journal can reach
JournalLines == 1..(1 + MaxJournalRows)

\* a row of six fields that parses, which is not the header
WellFormed(row) == Len(row) = 6 /\ RowParses(row) /\ row # HeaderRow

\* the tailer of an exchange has appended line k of the file of identity
\* inode to the store
Ingested(ex, inode, k) ==
    \E i \in 1..Len(tailed[ex]) : tailed[ex][i] = <<inode, k>>

\* the lines a tailer has appended are in the order of the file
InFileOrder(ex) ==
    \A i, j \in 1..Len(tailed[ex]) :
        (i < j /\ tailed[ex][i][1] = tailed[ex][j][1]) =>
            tailed[ex][i][2] < tailed[ex][j][2]

\* a step in which a tailer appends a line leaves the event of that line
\* as the newest of the store
IngestIsVisible(ex) ==
    tailed'[ex] # tailed[ex] =>
        LET at == tailed'[ex][Len(tailed'[ex])]
        IN  /\ events' # <<>>
            /\ events'[Len(events')] = RowEvent(OpenLines(ex)[at[2]])

\* C22: for each exchange, every well-formed row of the journal (so every
\* one appended while the hub is running) is eventually appended to the
\* store by the tailer, the appended event being visible in the store at
\* once, and the tailer appends the rows in the order of the journal,
\* under any interleaving of adapter appends and tailer polls.
C22_RowsBecomeVisibleInOrder ==
    /\ \A ex \in Exchanges : \A k \in JournalLines :
           (Len(journal[ex].lines) >= k /\ WellFormed(journal[ex].lines[k]))
               ~> Ingested(ex, journal[ex].inode, k)
    /\ [][\A ex \in Exchanges : IngestIsVisible(ex)]_vars
    /\ [](\A ex \in Exchanges : InFileOrder(ex))

\* a row appended after a poll had ended at line 2 has been appended to the
\* store by the next poll
C22_Witness ==
    \E ex \in Exchanges :
        /\ hub_pc = "running"
        /\ tailer[ex].pc = "reading"
        /\ tailer[ex].line_index = 2
        /\ Ingested(ex, journal[ex].inode, 2)
        /\ Ingested(ex, journal[ex].inode, 3)
        /\ events # <<>>

\* no line of a file has been appended to the store twice by its tailer
NoLineTwice(ex) ==
    \A i, j \in 1..Len(tailed[ex]) :
        tailed[ex][i] = tailed[ex][j] => i = j

\* C29: while the identity of the file is the same, after any poll, ended
\* or aborted by an error part-way through, the line cursor equals the
\* number of lines the tailer has processed, so the tailer appends every
\* journal row to the store at most once.
C29_CursorIsRowsProcessed ==
    \A ex \in Exchanges :
        /\ (tailer[ex].pc = "sleep"
               /\ tailer[ex].file_inode = journal[ex].inode) =>
               tailer[ex].line_index = tailer[ex].idx
        /\ NoLineTwice(ex)

\* the file of the journal is not the one the tailer remembers
OtherFile(ex) == tailer[ex].file_inode # journal[ex].inode

\* a step that opens the file for a poll
OpensFile(ex) == tailer[ex].pc = "sleep" /\ tailer'[ex].pc = "reading"

\* a poll that finds another file takes its identity and reads from line 0
\* with the header check to be made; a poll that finds the same file reads
\* from the cursor; no step on the same file lowers the cursor
CursorFollowsIdentity(ex) ==
    /\ (OpensFile(ex) /\ OtherFile(ex)) =>
           /\ tailer'[ex].file_inode = journal[ex].inode
           /\ tailer'[ex].line_index = 0
           /\ tailer'[ex].idx = 0
           /\ ~tailer'[ex].has_header_checked
    /\ (OpensFile(ex) /\ ~OtherFile(ex)) =>
           tailer'[ex].line_index = tailer[ex].line_index
    /\ tailer'[ex].file_inode = tailer[ex].file_inode =>
           tailer'[ex].line_index >= tailer[ex].line_index

\* the tailer has read the journal to its end
ReadToEnd(ex) ==
    /\ tailer[ex].pc = "sleep"
    /\ ~OtherFile(ex)
    /\ tailer[ex].line_index = Len(journal[ex].lines)

\* C30: a poll that finds the identity of the journal changed resets the
\* cursor to 0, and every row of the new file is read from the top and
\* appended to the store as a new event: when the tailer has read the file
\* to its end, each of its well-formed rows has been appended; while the
\* identity is the same the cursor is never reset or decreased.
C30_RotationRereads ==
    /\ [][\A ex \in Exchanges : CursorFollowsIdentity(ex)]_vars
    /\ [](\A ex \in Exchanges : ReadToEnd(ex) =>
              \A k \in 1..Len(journal[ex].lines) :
                  WellFormed(journal[ex].lines[k]) =>
                      Ingested(ex, journal[ex].inode, k))

\* a journal was replaced after its tailer had read it, and the tailer has
\* read the new file, which has no header, from its first line to its end
C30_Witness ==
    \E ex \in Exchanges :
        /\ tail_env.rotations > 0
        /\ journal[ex].inode = 2
        /\ tailer[ex].has_header_checked
        /\ ReadToEnd(ex)
        /\ Len(journal[ex].lines) = 2
        /\ Ingested(ex, 2, 1)
        /\ Ingested(ex, 2, 2)

(***************************************************************************)
(* Claims about the WebSocket subscriptions                                *)
(***************************************************************************)

\* the connection is in the set of the symbol
Subscribed(ws, symbol) ==
    \E i \in 1..Len(symbol_to_clients[symbol]) : symbol_to_clients[symbol][i] = ws

\* the connection is in the set of some symbol
InMap(ws) == \E symbol \in WsKeys : Subscribed(ws, symbol)

\* the handler of the connection is running
HandlerRunning(ws) == ws_state[ws] \in {"waiting", "subscribed", "closed"}

\* C23: a connection is in the subscription map only while its handler is
\* running, an open subscribed connection is in the set of each of its
\* symbols, and once the handler has returned after the client went away
\* the connection is in the set of no symbol.
C23_SubscriptionLifecycle ==
    \A ws \in WsClients :
        /\ InMap(ws) => HandlerRunning(ws)
        /\ ws_state[ws] = "subscribed" =>
               \A i \in 1..Len(ws_symbols[ws]) : Subscribed(ws, ws_symbols[ws][i])
        /\ ws_state[ws] = "done" => ~InMap(ws)

\* a connection subscribed to two symbols whose handler has returned
C23_Witness ==
    \E ws \in WsClients :
        /\ ws_state[ws] = "done"
        /\ ws_symbols[ws] = <<BTC, ETH>>
        /\ ~InMap(ws)

\* a list of parts between commas in which there is nothing but blanks
NoSymbolIn(parts) ==
    \A i \in 1..Len(parts) : \A j \in 1..Len(parts[i]) : parts[i][j] = " "

\* a first message that supplies no symbol
SuppliesNone(msg) ==
    CASE msg.kind = "text" -> NoSymbolIn(msg.parts)
      [] msg.kind = "object" -> msg.symbols = <<>> \/ NoSymbolIn(msg.symbols[1])
      [] msg.kind = "other" -> TRUE

\* C24: a client that supplies no symbol, neither in its path nor in a
\* first message within 30 s, or only empty entries, is sent the error
\* "symbols required" and closed, and is never in the set of a symbol: a
\* path without a symbol makes the handler wait, a first message without
\* a symbol or the timeout ends in the rejection, and a connection that is
\* waiting, rejected or gone during the wait is in no set.
C24_NoSymbolsRejected ==
    /\ [][\A ws \in WsClients :
             /\ \A request \in WsRequests :
                    (WsConnect(ws, request) /\ NoSymbolIn(request)) =>
                        ws_state'[ws] = "waiting"
             /\ \A msg \in WsFirstMessages :
                    (WsFirstMessage(ws, msg) /\ SuppliesNone(msg)) =>
                        ws_state'[ws] = "rejected"
             /\ WsFirstTimeout(ws) => ws_state'[ws] = "rejected"
             /\ ws_state[ws] = "rejected" => ws_state'[ws] = "rejected"]_vars
    /\ [](\A ws \in WsClients :
              /\ ws_state[ws] = "rejected" =>
                     ws_reply[ws] = <<SymbolsRequired>> /\ WsClosed(ws)
              /\ ws_state[ws] \in {"waiting", "rejected", "aborted"} =>
                     ~InMap(ws) /\ ws_symbols[ws] = <<>>)

\* one client was rejected after its wait and holds the error, while the
\* other is subscribed and was sent none
C24_Witness ==
    /\ ws_state["ws1"] = "rejected"
    /\ ws_reply["ws1"] = <<SymbolsRequired>>
    /\ ws_state["ws2"] = "subscribed"
    /\ ws_reply["ws2"] = <<>>

(***************************************************************************)
(* Claims about the conversions of the OKX adapter                         *)
(***************************************************************************)

\* a step in which a GET of the conversion in progress fails
OkxAttemptFails == okx_pc = "rest" /\ okx_rest_ok' = okx_rest_ok

\* C25: a conversion on a cache miss makes at most 3 GETs, every GET that
\* is not answered 200 with code 0 counting as one attempt; a failure of
\* the first or second attempt leads to the next attempt and changes
\* nothing else; the failure of the third ends the call: conversion_failed
\* grows by exactly 1 (and at no other step), no journal row and no cache
\* entry is written, and the adapter goes on with the next detail.
C25_ThreeAttempts ==
    /\ [](okx_retry + 1 <= MaxRetries)
    /\ [][OkxAttemptFails =>
             IF okx_retry + 1 < MaxRetries
             THEN /\ okx_pc' = "rest"
                  /\ okx_retry' = okx_retry + 1
                  /\ UNCHANGED <<okx_counter, okx_journal, conversion_cache,
                                 cache_file, okx_queue, okx_cur>>
             ELSE /\ okx_counter' =
                         [okx_counter EXCEPT !.conversion_failed = @ + 1]
                  /\ UNCHANGED <<okx_journal, conversion_cache, cache_file,
                                 okx_queue>>
                  /\ okx_pc' = IF okx_queue = <<>> THEN "recv" ELSE "details"
                  /\ okx_last'.how = "failed"
                  /\ okx_last'.calls = MaxRetries
                  /\ ~okx_last'.wrote]_vars
    /\ [][okx_counter'.conversion_failed # okx_counter.conversion_failed =>
             OkxAttemptFails /\ okx_retry + 1 = MaxRetries]_vars

\* a conversion has failed three times and the next detail of the push is
\* about to be handled
C25_Witness ==
    /\ okx_last.how = "failed"
    /\ okx_last.calls = 3
    /\ okx_counter.conversion_failed = 1
    /\ okx_journal = <<>>
    /\ okx_last.instId \notin DOMAIN conversion_cache
    /\ okx_pc = "details"
    /\ okx_queue # <<>>

\* the GETs of the convert endpoint that are in flight
RestInFlight == IF okx_pc = "rest" THEN 1 ELSE 0

\* C26: at most 2 GETs of the convert endpoint are in flight at any moment,
\* the permits available are those not held by a conversion in progress,
\* and so they are 2 again whenever no conversion is running, whether the
\* last one succeeded or gave up.
C26_PermitsReturn ==
    /\ RestInFlight <= SemaphorePermits
    /\ api_permits = SemaphorePermits - RestInFlight
    /\ okx_pc # "rest" => api_permits = 2

\* a conversion that succeeded and one that gave up are over, and no permit
\* is held
C26_Witness ==
    /\ okx_pc # "rest"
    /\ okx_counter.conversion_failed = 1
    /\ \E i \in InstIds : okx_rest_ok[i] = 1
    /\ okx_counter.api_calls = 2
    /\ api_permits = 2

\* the detail that is being handled, if any
OkxInProgress == okx_cur

\* C27: the OKX messages are handled one after the other: at most one
\* detail is in progress, a message is received only when every detail of
\* the one before has been handled, the details of a push are taken from
\* its head in order, and a step that writes to the journal appends the one
\* row of the detail in progress; so the rows of a push are in the order of
\* its details.
C27_Sequential ==
    /\ [](Len(OkxInProgress) <= 1 /\ (okx_pc = "rest" <=> OkxInProgress # <<>>))
    /\ [][okx_queue' # okx_queue =>
             \/ okx_queue # <<>> /\ okx_queue' = Tail(okx_queue)
             \/ /\ okx_queue = <<>>
                /\ OkxInProgress = <<>>
                /\ okx_pc = "recv"
                /\ okx_queue' \in OkxPushes]_vars
    /\ [][okx_journal' # okx_journal =>
             LET item == IF okx_pc = "rest" THEN okx_cur[1] ELSE Head(okx_queue)
                 rest == IF okx_pc = "rest" THEN okx_queue ELSE Tail(okx_queue)
             IN  /\ Len(okx_journal') = Len(okx_journal) + 1
                 /\ SubSeq(okx_journal', 1, Len(okx_journal)) = okx_journal
                 /\ LastRow(okx_journal')[1] = Num(OkxEventTime(item.detail.ts))
                 /\ LastRow(okx_journal')[2] = item.instId[1]
                 /\ okx_last'.detail = item.detail
                 /\ okx_queue' = rest
                 /\ okx_cur' = <<>>]_vars

\* the two details of one push, of different times, are both in the
\* journal, in the order of the push
C27_Witness ==
    /\ Len(okx_journal) = 2
    /\ okx_journal[1][1] = Num(OkxEventTime(2500))
    /\ okx_journal[2][1] = Num(OkxEventTime(0))
    /\ okx_counter.api_calls = 1
    /\ okx_counter.cache_hits = 1
    /\ okx_pc = "recv"

(***************************************************************************)
(* Claims about the connections of the adapters                            *)
(***************************************************************************)

\* the moves of a listen loop: a connection attempt ends live or in the
\* sleep, a live connection ends in the sleep, the sleep ends in a
\* connection attempt
ListenMove(conn, conn_next) ==
    \/ conn_next = conn
    \/ conn = "connecting" /\ conn_next \in {"live", "down"}
    \/ conn = "live" /\ conn_next = "down"
    \/ conn = "down" /\ conn_next = "connecting"

\* C28: in both adapters a failed connect, a receive timeout and a closed
\* connection all lead to the 5 s sleep and the sleep to a new connection
\* attempt; the loop has no end (some step of it is possible in every
\* state); the reconnect counter is 0 whenever the adapter is live; and an
\* adapter that is disconnected always eventually attempts a connection.
C28_ListenLoop ==
    /\ [][ListenMove(ba_conn, ba_conn') /\ ListenMove(okx_conn, okx_conn')]_vars
    /\ [](ba_conn = "live" => ba_reconnect = 0)
    /\ [](okx_conn = "live" => okx_reconnect = 0)
    /\ [](ENABLED BaListen)
    /\ [](okx_pc # "start" => ENABLED OkxListen)
    /\ (ba_conn = "down") ~> (ba_conn = "connecting")
    /\ (okx_conn = "down") ~> (okx_conn = "connecting")

\* the Binance adapter is live, its counter at 0, while the OKX adapter is
\* asleep after the second failure it has counted
C28_Witness ==
    /\ ba_conn = "live"
    /\ ba_reconnect = 0
    /\ okx_conn = "down"
    /\ okx_reconnect = 2

(***************************************************************************)
(* Claims about the details the OKX adapter drops                          *)
(***************************************************************************)

\* the detail handle_detail is working on, if any
OkxHandling ==
    IF okx_pc = "rest" THEN okx_cur
    ELSE IF okx_pc = "details" /\ okx_queue # <<>> THEN <<Head(okx_queue)>>
    ELSE <<>>

\* a (side, posSide) combination that is neither sell/long nor buy/short
InvalidCombination(detail) ==
    /\ ~(detail.side = "sell" /\ detail.posSide = "long")
    /\ ~(detail.side = "buy" /\ detail.posSide = "short")

\* C37: handling a detail whose (side, posSide) combination is invalid
\* makes no REST convert call and leaves the conversion cache, the cache
\* file and the journal as they were.
C37_InvalidCombinationNoEffect ==
    [][(OkxHandling # <<>> /\ InvalidCombination(OkxHandling[1].detail)) =>
          /\ UNCHANGED <<conversion_cache, cache_file, okx_journal>>
          /\ okx_counter'.api_calls = okx_counter.api_calls]_vars

(***************************************************************************)
(* Claims about the cursor of a /stream connection                         *)
(***************************************************************************)

\* C36: the cursor last_ts of a /stream connection never moves backwards:
\* every turn of the stream's loop leaves it as it was or later, in
\* whatever order the events of the two exchanges are appended.
C36_CursorMonotonic ==
    [][(sse.pc = "open" /\ sse'.pc = "open") =>
          sse'.last_ts >= sse.last_ts]_vars

\* the stream has emitted a frame whose events are not in the order of
\* their times, and a later frame
C36_Witness ==
    /\ sse.pc = "open"
    /\ Len(sse.frames) >= 2
    /\ Len(sse.frames[1]) = 2
    /\ sse.frames[1][1].datetime > sse.frames[1][2].datetime
    /\ sse.last_ts > sse.frames[1][2].datetime

(***************************************************************************)
(* Claims about the contents of the store                                  *)
(***************************************************************************)

\* s is the end of t
IsSuffix(s, t) ==
    /\ Len(s) <= Len(t)
    /\ s = SubSeq(t, Len(t) - Len(s) + 1, Len(t))

\* C35: the store is always a contiguous suffix of the sequence of all the
\* events ever appended: a step that appends an event leaves an end of the
\* store with that event behind it, any other step (a prune) leaves an end
\* of the store; so events leave at the head only, and none is reordered
\* or modified.
C35_StoreIsSuffix ==
    [][IF store_last'.n # store_last.n
       THEN IsSuffix(events', Append(events, store_last'.event[1]))
       ELSE IsSuffix(events', events)]_vars

\* the second event appended is stored and the first one has been evicted
C35_Witness ==
    /\ store_last.n = 2
    /\ events = <<store_last.event[1]>>

(***************************************************************************)
(* Claims about the writers of the store                                   *)
(***************************************************************************)

\* C34: the only caller of EventStore.append with events of an exchange is
\* the tailer of that exchange's journal, and every event of the store was
\* inserted by one tailer ingest of one journal row: the store holds no
\* more events of an exchange than its tailer has ingested rows, and each
\* is the event of a row the tailer ingested.
C34_OnlyTailersAppend ==
    \A ex \in Exchanges :
        /\ Len(EventsOf(ex)) <= Len(tailed[ex])
        /\ \A i \in 1..Len(EventsOf(ex)) :
               \E k \in 1..Len(journal[ex].lines) :
                   /\ Ingested(ex, journal[ex].inode, k)
                   /\ EventsOf(ex)[i] = RowEvent(journal[ex].lines[k])

(***************************************************************************)
(* Claims about notify and closed subscribers                              *)
(***************************************************************************)

\* a step of notify that looks at its last target, finds it closed and
\* returns
NotifyFindsClosed(thread) ==
    /\ appender[thread].pc = "send"
    /\ appender'[thread].pc = "idle"
    /\ WsClosed(Head(appender[thread].targets))

\* C32: when notify finds a subscriber whose transport is closed, nothing
\* is sent to it and, when notify returns, the subscriber is in the set of
\* no symbol.
C32_ClosedSubscriberRemoved ==
    [][\A thread \in Exchanges :
           NotifyFindsClosed(thread) =>
               LET ws == Head(appender[thread].targets)
               IN  /\ ws_sent'[ws] = ws_sent[ws]
                   /\ \A symbol \in WsKeys :
                          \A i \in 1..Len(symbol_to_clients'[symbol]) :
                              symbol_to_clients'[symbol][i] # ws]_vars

(***************************************************************************)
(* Claims about the locks                                                  *)
(***************************************************************************)

\* the exits of the with blocks of STORE.lock
StoreLockExit ==
    \/ \E thread \in Exchanges : AppendRelease(thread)
    \/ ListLatestRelease

\* the exits of the with blocks of the broker's lock
BrokerLockExit ==
    \/ \E thread \in Exchanges : NotifyRelease(thread) \/ DiscardRelease(thread)
    \/ \E ws \in WsClients : HandlerRelease(ws) \/ FinallyRelease(ws)

\* C33: a thread inside notify does not hold the store lock, and while it
\* hands a send to a subscriber it does not hold the broker lock either;
\* whoever holds one of the two locks can leave its with block at once,
\* whatever the subscribers do.
C33_NotifyHoldsNoLock ==
    /\ \A thread \in Exchanges :
           /\ appender[thread].pc \in {"notify", "snapshot", "send", "discard"}
                  => locks.store # thread
           /\ appender[thread].pc \in {"notify", "send"}
                  => locks.broker # thread
    /\ locks.store # Free => ENABLED StoreLockExit
    /\ locks.broker # Free => ENABLED BrokerLockExit

\* one thread is handing sends to subscribers, one of which has a send
\* outstanding, while the other thread is inside the store lock and a
\* handler is inside the broker lock
C33_Witness ==
    /\ appender["Binance"].pc = "send"
    /\ \E ws \in WsClients : ws_state[ws] = "subscribed" /\ ws_sent[ws] # <<>>
    /\ locks.store = "OKX"
    /\ \E ws \in WsClients : locks.broker = ws

(***************************************************************************)
(* Claims about malformed journal rows                                     *)
(***************************************************************************)

\* a row whose width is not 6, or whose time, price or amount is no number
Malformed(row) ==
    IF Len(row) # 6 THEN TRUE
    ELSE row[1].k # "num" \/ row[4].k # "num" \/ row[6].k # "num"

\* the tailer goes over a line of the file in this step
ReadsRow(ex) ==
    tailer[ex].pc = "reading" /\ tailer'[ex].idx = tailer[ex].idx + 1

\* the poll of the tailer ends in this step
PollEnds(ex) == tailer[ex].pc = "reading" /\ tailer'[ex].pc = "sleep"

\* C31: a malformed journal row (not 6 fields; a time, price or amount that
\* does not parse) is gone over without an event being inserted, the cursor
\* is moved past it, and when the tailer has read the file to its end every
\* row that is not malformed has been ingested, the malformed ones have
\* not; in a journal without a header the first row is ingested if it is
\* well-formed.
C31_MalformedRowSkipped ==
    /\ [][\A ex \in Exchanges :
              (ReadsRow(ex) /\ Malformed(OpenLines(ex)[tailer[ex].idx + 1])) =>
                  /\ events' = events
                  /\ tailed' = tailed
                  /\ tailer'[ex].last_index = tailer[ex].idx + 1]_vars
    /\ [][\A ex \in Exchanges :
              PollEnds(ex) => tailer'[ex].line_index = Len(OpenLines(ex))]_vars
    /\ [](\A ex \in Exchanges : ReadToEnd(ex) =>
              \A k \in 1..Len(journal[ex].lines) :
                  Ingested(ex, journal[ex].inode, k)
                      <=> ~Malformed(journal[ex].lines[k]))

\* a journal without a header holds a malformed row and a well-formed row
\* after it; the tailer has read it to its end and ingested the second row
\* only
C31_Witness ==
    \E ex \in Exchanges :
        /\ journal[ex].inode = 2
        /\ Len(journal[ex].lines) = 2
        /\ Malformed(journal[ex].lines[1])
        /\ ReadToEnd(ex)
        /\ tailer[ex].line_index = 2
        /\ tailed[ex] # <<>>
        /\ tailed[ex][Len(tailed[ex])] = <<2, 2>>
        /\ ~Ingested(ex, 2, 1)

====
